---- MODULE Spec2Model ----
(***************************************************************************)
(* Model of the analytics and conversational-query core of the review      *)
(* analyzer backend: backend/chat_handler.py (date-range resolver, review  *)
(* filter, statistics aggregator, topic extractor) and the /ai/chat        *)
(* handler of backend/main.py.                                             *)
(*                                                                         *)
(* Conventions.                                                            *)
(*   - Python None (or a missing dict key) is the empty tuple <<>>; a      *)
(*     present value x of an optional field is <<x>>.                      *)
(*   - A text (question, review body) is the sequence of its               *)
(*     whitespace-separated words; Python's `k in text` substring test is  *)
(*     Contains, computed from the table of which model words hold which   *)
(*     keyword as a substring.                                             *)
(*   - A rating is [t, v]: t = "none" (missing), "str" (a non-empty        *)
(*     string such as "5"), "num" (int or float) with v the value in       *)
(*     units of 1/RatingScale.                                             *)
(*   - A function that can raise returns [ok |-> FALSE, ...] for the       *)
(*     exception and [ok |-> TRUE, val |-> result] otherwise.              *)
(***************************************************************************)
EXTENDS Integers, Sequences, FiniteSets, TLC

VARIABLES
    pc,                \* position of the call or request under way
    question,          \* input: the question text (sequence of words)
    reviews,           \* input: the review collection (request.reviews)
    date_range,        \* input: the caller-supplied date range
    product_id,        \* input: request.product_id
    today,             \* input: datetime.now() of the call
    HAS_DATEUTIL,      \* build: whether python-dateutil is importable
    ret,               \* return value of the pure function under check
    stats,             \* compute_stats_from_reviews result
    negative_topics,   \* extract_topics_from_reviews(..., "negative", 5)
    positive_topics,   \* extract_topics_from_reviews(..., "positive", 5)
    shopify,           \* input: request.shopify (the review-source settings)
    date_range_label,  \* input: request.date_range_label
    raw_reviews,       \* ai_chat: the reviews in hand
    used_range,        \* ai_chat: the date range in use
    filtered_reviews,  \* ai_chat: the reviews after the date and product filters
    evidence_quotes,   \* ai_chat: build_evidence_quotes result
    calls,             \* the calls made to the review source and the generative model
    faults,            \* the steps of the request at which an exception is injected
    CACHE,             \* groq_ai._CACHE: the response cache, key -> text
    callers,           \* the calls of groq_chat_completion under way
    page,              \* get_full_reviews: the page to request next
    limit              \* get_full_reviews: the limit argument

\* the variables only the /ai/chat handler uses
chatVars == <<shopify, date_range_label, raw_reviews, used_range, filtered_reviews,
              evidence_quotes, calls, faults>>

\* the variables only the outbound clients use
clientVars == <<CACHE, callers, page, limit>>

vars == <<pc, question, reviews, date_range, product_id, today, HAS_DATEUTIL,
          ret, stats, negative_topics, positive_topics, chatVars, clientVars>>

(***************************************************************************)
(* Bounds of the model.                                                    *)
(***************************************************************************)
MaxReviews == 2
RatingScale == 2

None == <<>>
Some(x) == <<x>>
Raise == [ok |-> FALSE]
Ok(x) == [ok |-> TRUE, val |-> x]

Range(s) == {s[i] : i \in DOMAIN s}

\* no call of an outbound client is under way
NoClient ==
    /\ CACHE = <<>>
    /\ callers = <<>>
    /\ page = 0
    /\ limit = 0

\* no /ai/chat request is under way
NoChat ==
    /\ shopify = None
    /\ date_range_label = None
    /\ raw_reviews = <<>>
    /\ used_range = None
    /\ filtered_reviews = <<>>
    /\ evidence_quotes = <<>>
    /\ calls = <<>>
    /\ faults = {}
SeqsUpTo(S, n) == UNION {[1..k -> S] : k \in 0..n}

(***************************************************************************)
(* Reviews.                                                                *)
(***************************************************************************)
NoRating == [t |-> "none", v |-> 0]
StrRating == [t |-> "str", v |-> 0]
Num(x) == [t |-> "num", v |-> x]

\* Ratings 0, 1/RatingScale, 1, 2, 2 + 1/RatingScale, 3, 4, 5, 6 and the
\* non-numeric ones.
RatingValues ==
    {NoRating, StrRating} \cup
    {Num(x) : x \in {0, 1, RatingScale, 2 * RatingScale, 2 * RatingScale + 1,
                     3 * RatingScale, 4 * RatingScale, 5 * RatingScale,
                     6 * RatingScale}}

\* A label field: missing (<<>>), a string, or a non-string value such as
\* the number 1 (written "#1").
LabelValues == {None, Some(""), Some("positive"), Some("negative"),
                Some("NEGATIVE"), Some("neutral"), Some("#1")}

IsStr(s) == s # "#1"

\* str.lower()
Lower(s) == CASE s = "NEGATIVE" -> "negative"
              [] s = "Battery" -> "battery"
              [] OTHER -> s

\* Python truthiness of an optional string-or-number field
Truthy(f) == f # None /\ f # Some("")

\* (r.get("sentiment_label") or r.get("sentiment") or "").lower()
SentimentOf(r) ==
    LET raw == IF Truthy(r.sentiment_label) THEN r.sentiment_label[1]
               ELSE IF Truthy(r.sentiment) THEN r.sentiment[1]
               ELSE ""
    IN IF IsStr(raw) THEN Ok(Lower(raw)) ELSE Raise

\* isinstance(rating, (int, float)) and 1 <= rating <= 5
ValidRating(rating) ==
    rating.t = "num" /\ 1 * RatingScale <= rating.v /\ rating.v <= 5 * RatingScale

\* The class one iteration of the loop of compute_stats_from_reviews adds 1
\* to, or "raise" when the iteration raises (AttributeError of .lower()).
ClassOf(r) ==
    IF ValidRating(r.rating)
    THEN (IF r.rating.v >= 4 * RatingScale THEN "positive"
          ELSE IF r.rating.v <= 2 * RatingScale THEN "negative"
          ELSE "neutral")
    ELSE LET s == SentimentOf(r)
         IN IF ~s.ok THEN "raise"
            ELSE IF s.val = "positive" THEN "positive"
            ELSE IF s.val = "negative" THEN "negative"
            ELSE "neutral"

CountClass(rs, c) == Cardinality({i \in DOMAIN rs : ClassOf(rs[i]) = c})

\* round(count / total * 100, 1), in tenths of a percent (round half to even)
Pct(count, total) ==
    IF total = 0 THEN 0
    ELSE LET n == 1000 * count
             q == n \div total
             r == n % total
         IN IF 2 * r < total THEN q
            ELSE IF 2 * r > total THEN q + 1
            ELSE IF q % 2 = 0 THEN q ELSE q + 1

RECURSIVE SumRatings(_)
SumRatings(rs) ==
    IF rs = <<>> THEN 0
    ELSE (IF ValidRating(Head(rs).rating) THEN Head(rs).rating.v ELSE 0)
         + SumRatings(Tail(rs))

\* round(sum(ratings) / len(ratings), 2) in hundredths, None without ratings
AvgRating(rs) ==
    LET n == Cardinality({i \in DOMAIN rs : ValidRating(rs[i].rating)})
    IN IF n = 0 THEN None
       ELSE LET num == 100 * SumRatings(rs)
                den == RatingScale * n
                q == num \div den
                r == num % den
            IN Some(IF 2 * r < den THEN q
                    ELSE IF 2 * r > den THEN q + 1
                    ELSE IF q % 2 = 0 THEN q ELSE q + 1)

EmptyStats ==
    [total |-> 0, positive_count |-> 0, negative_count |-> 0, neutral_count |-> 0,
     positive_pct |-> 0, negative_pct |-> 0, neutral_pct |-> 0, avg_rating |-> None]

compute_stats_from_reviews(rs) ==
    IF rs = <<>> THEN Ok(EmptyStats)
    ELSE IF \E i \in DOMAIN rs : ClassOf(rs[i]) = "raise" THEN Raise
    ELSE LET total == Len(rs)
             positive == CountClass(rs, "positive")
             negative == CountClass(rs, "negative")
             neutral == CountClass(rs, "neutral")
         IN Ok([total |-> total,
                positive_count |-> positive,
                negative_count |-> negative,
                neutral_count |-> neutral,
                positive_pct |-> Pct(positive, total),
                negative_pct |-> Pct(negative, total),
                neutral_pct |-> Pct(neutral, total),
                avg_rating |-> AvgRating(rs)])

(***************************************************************************)
(* Texts and substring containment.                                        *)
(***************************************************************************)
\* <<k, w>>: k is a proper prefix, or a proper suffix, of the word w (both
\* lowercase), for the words the model's texts are made of.
PrefixPairs ==
    {<<"size", "sizes">>, <<"charge", "charger">>, <<"neg", "negative">>,
     <<"pos", "positive">>, <<"topic", "topics">>, <<"issue", "issues">>,
     <<"product", "products">>}
SuffixPairs == {<<"fit", "outfit">>, <<"fix", "prefix">>, <<"7", "17">>}
SubPairs == PrefixPairs \cup SuffixPairs

Sub(k, w) == k = w \/ <<k, w>> \in SubPairs
Prefix(k, w) == k = w \/ <<k, w>> \in PrefixPairs
Suffix(k, w) == k = w \/ <<k, w>> \in SuffixPairs

\* text.lower()
LowerText(text) == [i \in DOMAIN text |-> Lower(text[i])]

\* `phrase in text` for a phrase given as the sequence of its words
\* (a one-word phrase anywhere in a word; a longer phrase ends the word its
\* first word falls in and begins the word its last word falls in)
Contains(phrase, text) ==
    \E i \in 1..(Len(text) - Len(phrase) + 1) :
        \A j \in 1..Len(phrase) :
            IF Len(phrase) = 1 THEN Sub(phrase[j], text[i + j - 1])
            ELSE IF j = 1 THEN Suffix(phrase[j], text[i + j - 1])
            ELSE IF j = Len(phrase) THEN Prefix(phrase[j], text[i + j - 1])
            ELSE phrase[j] = text[i + j - 1]

\* any(k in text for k in phrases)
AnyIn(phrases, text) == \E k \in phrases : Contains(k, text)

\* (r.get("body") or r.get("text") or "")
BodyOf(r) == IF r.body # None /\ r.body[1] # <<>> THEN r.body[1]
             ELSE IF r.text # None /\ r.text[1] # <<>> THEN r.text[1]
             ELSE <<>>

(***************************************************************************)
(* Topic extractor.                                                        *)
(***************************************************************************)
keywords ==
    << <<"sizing">>, <<"size">>, <<"small">>, <<"large">>, <<"fit">>,
       <<"quality">>, <<"durable">>, <<"durability">>, <<"lasted">>,
       <<"shipping">>, <<"delivery">>, <<"arrived">>, <<"package">>,
       <<"battery">>, <<"charge">>, <<"charging">>,
       <<"support">>, <<"customer", "service">>, <<"help">>,
       <<"price">>, <<"expensive">>, <<"cheap">>, <<"value">>,
       <<"material">>, <<"fabric">>, <<"color">>, <<"design">> >>

\* Python truthiness of r.get("rating")
RatingTruthy(rating) == rating.t = "str" \/ (rating.t = "num" /\ rating.v # 0)

\* The sentiment filter of one iteration of extract_topics_from_reviews:
\* "in" (scanned), "out" (continue) or "raise" (AttributeError of .lower() on a
\* non-string label, TypeError of comparing a string rating with a number).
ScanOf(r, sentiment) ==
    LET s == SentimentOf(r)
    IN IF ~s.ok THEN "raise"
       ELSE IF sentiment = "negative"
       THEN (IF RatingTruthy(r.rating)
             THEN (IF r.rating.t = "str" THEN "raise"
                   ELSE IF r.rating.v <= 2 * RatingScale THEN "in"
                   ELSE IF s.val = "negative" THEN "in" ELSE "out")
             ELSE IF s.val = "negative" THEN "in" ELSE "out")
       ELSE IF sentiment = "positive"
       THEN (IF RatingTruthy(r.rating)
             THEN (IF r.rating.t = "str" THEN "raise"
                   ELSE IF r.rating.v >= 4 * RatingScale THEN "in"
                   ELSE IF s.val = "positive" THEN "in" ELSE "out")
             ELSE IF s.val = "positive" THEN "in" ELSE "out")
       ELSE "in"

\* The indices of the reviews whose keywords are counted
ScanSet(rs, sentiment) == {i \in DOMAIN rs : ScanOf(rs[i], sentiment) = "in"}

\* keyword_counts[kw] = keyword_counts.get(kw, 0) + 1 on an insertion-ordered dict
Bump(counts, kw) ==
    IF \E i \in DOMAIN counts : counts[i].kw = kw
    THEN [i \in DOMAIN counts |->
            IF counts[i].kw = kw THEN [kw |-> kw, n |-> counts[i].n + 1]
            ELSE counts[i]]
    ELSE Append(counts, [kw |-> kw, n |-> 1])

\* for kw in keywords: if kw in body: ...   (from keyword number k on)
RECURSIVE BumpAll(_, _, _)
BumpAll(counts, k, body) ==
    IF k > Len(keywords) THEN counts
    ELSE BumpAll(IF Contains(keywords[k], body) THEN Bump(counts, keywords[k])
                 ELSE counts,
                 k + 1, body)

\* the loop over the reviews
RECURSIVE CountKeywords(_, _, _)
CountKeywords(rs, sentiment, counts) ==
    IF rs = <<>> THEN counts
    ELSE CountKeywords(Tail(rs), sentiment,
                       IF ScanOf(Head(rs), sentiment) = "in"
                       THEN BumpAll(counts, 1, LowerText(BodyOf(Head(rs))))
                       ELSE counts)

\* sorted(items, key=count, reverse=True): stable, descending
RECURSIVE InsertDesc(_, _)
InsertDesc(sorted, x) ==
    IF sorted = <<>> THEN <<x>>
    ELSE IF Head(sorted).n >= x.n THEN <<Head(sorted)>> \o InsertDesc(Tail(sorted), x)
    ELSE <<x>> \o sorted

RECURSIVE SortDesc(_, _)
SortDesc(items, acc) ==
    IF items = <<>> THEN acc
    ELSE SortDesc(Tail(items), InsertDesc(acc, Head(items)))

Take(s, k) == SubSeq(s, 1, IF Len(s) < k THEN Len(s) ELSE k)

extract_topics_from_reviews(rs, sentiment, top_k) ==
    IF \E i \in DOMAIN rs : ScanOf(rs[i], sentiment) = "raise" THEN Raise
    ELSE Ok(Take(SortDesc(CountKeywords(rs, sentiment, <<>>), <<>>), top_k))


(***************************************************************************)
(* Review collections the calls are checked on.                            *)
(***************************************************************************)
BaseReview ==
    [rating |-> NoRating, sentiment_label |-> None, sentiment |-> None,
     body |-> None, text |-> None, created_at |-> None, product_id |-> None,
     product_title |-> None]

\* The (sentiment_label, sentiment) pairs of the model's reviews
LabelPairs ==
    {<<l, None>> : l \in LabelValues \ {Some("")}} \cup
    {<<Some(""), Some("negative")>>, <<None, Some("positive")>>}

\* Every rating with three label pairs, and four ratings with every label pair
ClassifyCases ==
    (RatingValues \X {<<None, None>>, <<Some("NEGATIVE"), None>>,
                      <<None, Some("positive")>>})
    \cup ({NoRating, StrRating, Num(3 * RatingScale), Num(5 * RatingScale)}
          \X LabelPairs)

ClassifyReviews ==
    {[BaseReview EXCEPT !.rating = c[1], !.sentiment_label = c[2][1],
                        !.sentiment = c[2][2], !.body = Some(<<"Battery", "died">>)] :
        c \in ClassifyCases}

(***************************************************************************)
(* Aggregator and topic extractor applied to a review collection.          *)
(***************************************************************************)
TopK == 5

InitStats ==
    /\ pc = "call"
    /\ reviews \in SeqsUpTo(ClassifyReviews, MaxReviews)
    /\ question = <<>>
    /\ date_range = None
    /\ product_id = None
    /\ today = None
    /\ HAS_DATEUTIL = TRUE
    /\ ret = None
    /\ stats = None
    /\ negative_topics = None
    /\ positive_topics = None
    /\ NoChat
    /\ NoClient

CallComputeStats ==
    /\ pc = "call"
    /\ stats' = compute_stats_from_reviews(reviews)
    /\ pc' = "stats"
    /\ UNCHANGED <<question, reviews, date_range, product_id, today, HAS_DATEUTIL,
                   ret, negative_topics, positive_topics>>
    /\ UNCHANGED <<chatVars, clientVars>>

CallExtractTopics ==
    /\ pc = "stats"
    /\ negative_topics' = extract_topics_from_reviews(reviews, "negative", TopK)
    /\ positive_topics' = extract_topics_from_reviews(reviews, "positive", TopK)
    /\ pc' = "topics"
    /\ UNCHANGED <<question, reviews, date_range, product_id, today, HAS_DATEUTIL,
                   ret, stats>>
    /\ UNCHANGED <<chatVars, clientVars>>

NextStats == CallComputeStats \/ CallExtractTopics

SpecStats == InitStats /\ [][NextStats]_vars

(***************************************************************************)
(* C1. compute_stats_from_reviews classifies every review as exactly one   *)
(* class: a rating that is a number in 1..5 decides alone (>= 4 positive,  *)
(* <= 2 negative, otherwise neutral); without such a rating the class is   *)
(* the label when the label is "positive" or "negative", and neutral in    *)
(* every other case.  Stated on the result: the call returns, and each     *)
(* count is the number of reviews of that class.                           *)
(***************************************************************************)
\* the label of the claim: the first non-empty label field, lowercased
ClaimLabel(r) ==
    LET raw == IF Truthy(r.sentiment_label) THEN r.sentiment_label[1]
               ELSE IF Truthy(r.sentiment) THEN r.sentiment[1]
               ELSE ""
    IN Lower(raw)

ClaimClass(r) ==
    IF r.rating.t = "num" /\ r.rating.v >= RatingScale /\ r.rating.v <= 5 * RatingScale
    THEN (IF r.rating.v >= 4 * RatingScale THEN "positive"
          ELSE IF r.rating.v <= 2 * RatingScale THEN "negative"
          ELSE "neutral")
    ELSE IF ClaimLabel(r) \in {"positive", "negative"} THEN ClaimLabel(r)
    ELSE "neutral"

ClaimCount(rs, c) == Cardinality({i \in DOMAIN rs : ClaimClass(rs[i]) = c})

C1_ClassifiesEveryReview ==
    pc = "stats" =>
        /\ stats.ok
        /\ stats.val.positive_count = ClaimCount(reviews, "positive")
        /\ stats.val.negative_count = ClaimCount(reviews, "negative")
        /\ stats.val.neutral_count = ClaimCount(reviews, "neutral")

\* What does hold: whenever the call returns, the counts are the claim's.
C1_ClassifiesWhenReturns ==
    (pc = "stats" /\ stats.ok) =>
        /\ stats.val.positive_count = ClaimCount(reviews, "positive")
        /\ stats.val.negative_count = ClaimCount(reviews, "negative")
        /\ stats.val.neutral_count = ClaimCount(reviews, "neutral")


(***************************************************************************)
(* C2. extract_topics_from_reviews uses the classification of the          *)
(* aggregator: for each class c of positive, negative, a review is in the  *)
(* scan set of c exactly when compute_stats_from_reviews counts it as c,   *)
(* so the size of the negative (positive) scan set is negative_count       *)
(* (positive_count).  Stated for the calls that return, on reviews that all *)
(* have a valid rating.                                                    *)
(***************************************************************************)
C2_ScanSetIsStatsClass ==
    (/\ pc = "topics" /\ stats.ok /\ negative_topics.ok /\ positive_topics.ok
     /\ \A i \in DOMAIN reviews : ValidRating(reviews[i].rating)) =>
        /\ \A i \in DOMAIN reviews :
              /\ (i \in ScanSet(reviews, "negative")) <=> (ClassOf(reviews[i]) = "negative")
              /\ (i \in ScanSet(reviews, "positive")) <=> (ClassOf(reviews[i]) = "positive")
        /\ Cardinality(ScanSet(reviews, "negative")) = stats.val.negative_count
        /\ Cardinality(ScanSet(reviews, "positive")) = stats.val.positive_count


(***************************************************************************)
(* Dates and timestamps.                                                   *)
(*   A date string "YYYY-MM-DD" is [y, m, d]; a string that is no such     *)
(*   text is Garbage.  A created_at string is [k, y, m, d, s]: k the way   *)
(*   it is written ("date": date only, "naive": YYYY-MM-DDTHH:MM:SS,       *)
(*   "offset": the same followed by Z or +00:00, "junk": no date at all),  *)
(*   s the second of the day.  A datetime is [y, m, d, s, aware].          *)
(***************************************************************************)
Date(y, m, d) == [y |-> y, m |-> m, d |-> d]
Garbage == Date(0, 0, 0)

IsLeap(y) == (y % 4 = 0 /\ y % 100 # 0) \/ y % 400 = 0

DaysInMonth(y, m) ==
    IF m = 2 THEN (IF IsLeap(y) THEN 29 ELSE 28)
    ELSE IF m \in {4, 6, 9, 11} THEN 30 ELSE 31

\* datetime(y, m, d) can be built (MINYEAR is 1)
ValidDate(dt) ==
    /\ dt.y >= 1 /\ dt.y <= 9999
    /\ dt.m >= 1 /\ dt.m <= 12
    /\ dt.d >= 1 /\ dt.d <= DaysInMonth(dt.y, dt.m)

DateTime(dt, s, aware) == [y |-> dt.y, m |-> dt.m, d |-> dt.d, s |-> s, aware |-> aware]

\* datetime.strptime(text, "%Y-%m-%d")
strptime(dt) == IF ValidDate(dt) THEN Ok(DateTime(dt, 0, FALSE)) ELSE Raise

\* end.replace(hour=23, minute=59, second=59)
EndOfDay(t) == [t EXCEPT !.s = 23 * 3600 + 59 * 60 + 59]

\* a <= b on naive datetimes
DayKey(t) == (t.y * 12 + t.m) * 31 + t.d
Before(a, b) == DayKey(a) < DayKey(b) \/ (DayKey(a) = DayKey(b) /\ a.s <= b.s)

Stamp(k, dt, s) == [k |-> k, y |-> dt.y, m |-> dt.m, d |-> dt.d, s |-> s]
StampDate(c) == Date(c.y, c.m, c.d)

\* dateutil.parser.parse(created_at)
dateutil_parse(c) ==
    IF c.k = "junk" \/ ~ValidDate(StampDate(c)) THEN Raise
    ELSE IF c.k = "date" THEN Ok(DateTime(StampDate(c), 0, FALSE))
    ELSE Ok(DateTime(StampDate(c), c.s, c.k = "offset"))

\* The fallback parser: "%Y-%m-%d", then "%Y-%m-%dT%H:%M:%S", then the text
\* before "T" as "%Y-%m-%d"
date_parser_parse(c) ==
    IF c.k = "junk" \/ ~ValidDate(StampDate(c)) THEN Raise
    ELSE IF c.k = "naive" THEN Ok(DateTime(StampDate(c), c.s, FALSE))
    ELSE Ok(DateTime(StampDate(c), 0, FALSE))

\* One iteration of the loop of filter_reviews_by_date: TRUE when the review
\* is appended.  Empty or missing created_at: continue.  A parse error, and
\* the TypeError of comparing a naive with an aware datetime, are swallowed.
KeptByFilter(r, start, end, dateutil) ==
    /\ r.created_at # None
    /\ r.created_at[1].k # "empty"
    /\ LET p == IF dateutil THEN dateutil_parse(r.created_at[1])
                ELSE date_parser_parse(r.created_at[1])
       IN /\ p.ok
          /\ ~p.val.aware
          /\ Before(start, p.val)
          /\ Before(p.val, end)

\* A date range dict: <<>> is None, [start, end] with each key absent (<<>>)
\* or a date string; the dict without keys is {}.
EmptyDict == [start |-> None, end |-> None]

\* Mutant: the early return for an absent range is gone, and the loop drops
\* the reviews without created_at.
filter_reviews_by_date_NoEarlyReturn(rs, dr, dateutil) ==
    IF dr = None \/ dr[1] = EmptyDict \/ rs = <<>>
    THEN [val |-> SelectSeq(rs, LAMBDA r : r.created_at # None), same |-> FALSE]
    ELSE IF dr[1].start = None \/ dr[1].end = None THEN [val |-> rs, same |-> TRUE]
    ELSE LET start == strptime(dr[1].start[1])
             end == strptime(dr[1].end[1])
         IN IF ~start.ok \/ ~end.ok THEN [val |-> rs, same |-> TRUE]
            ELSE [val |-> SelectSeq(rs, LAMBDA r :
                              KeptByFilter(r, start.val, EndOfDay(end.val), dateutil)),
                  same |-> FALSE]

\* Mutant: the try/except is around the loop, not inside it, so one parse
\* error ends the filtering and the input is returned.
filter_reviews_by_date_AbortOnError(rs, dr, dateutil) ==
    IF dr = None \/ dr[1] = EmptyDict \/ rs = <<>> THEN [val |-> rs, same |-> TRUE]
    ELSE IF dr[1].start = None \/ dr[1].end = None THEN [val |-> rs, same |-> TRUE]
    ELSE LET start == strptime(dr[1].start[1])
             end == strptime(dr[1].end[1])
             fails(r) == /\ r.created_at # None
                         /\ r.created_at[1].k # "empty"
                         /\ ~(IF dateutil THEN dateutil_parse(r.created_at[1])
                              ELSE date_parser_parse(r.created_at[1])).ok
         IN IF ~start.ok \/ ~end.ok THEN [val |-> rs, same |-> TRUE]
            ELSE IF \E i \in DOMAIN rs : fails(rs[i]) THEN [val |-> rs, same |-> TRUE]
            ELSE [val |-> SelectSeq(rs, LAMBDA r :
                              KeptByFilter(r, start.val, EndOfDay(end.val), dateutil)),
                  same |-> FALSE]

\* The result is [val |-> the list, same |-> whether it is the input object]
filter_reviews_by_date(rs, dr, dateutil) ==
    IF dr = None \/ dr[1] = EmptyDict \/ rs = <<>> THEN [val |-> rs, same |-> TRUE]
    ELSE IF dr[1].start = None \/ dr[1].end = None THEN [val |-> rs, same |-> TRUE]
    ELSE LET start == strptime(dr[1].start[1])
             end == strptime(dr[1].end[1])
         IN IF ~start.ok \/ ~end.ok THEN [val |-> rs, same |-> TRUE]
            ELSE [val |-> SelectSeq(rs, LAMBDA r :
                              KeptByFilter(r, start.val, EndOfDay(end.val), dateutil)),
                  same |-> FALSE]


(***************************************************************************)
(* The review filter applied to a review collection and a date range.      *)
(***************************************************************************)
Jan01 == Date(2024, 1, 1)
Jan15 == Date(2024, 1, 15)
Jan31 == Date(2024, 1, 31)
Feb01 == Date(2024, 2, 1)
Dec31 == Date(2023, 12, 31)

HMS(h, mi, sec) == h * 3600 + mi * 60 + sec

FilterStamps ==
    {None,
     Some(Stamp("empty", Garbage, 0)),                  \* ""
     Some(Stamp("junk", Garbage, 0)),                   \* "not a date"
     Some(Stamp("date", Date(2024, 2, 30), 0)),         \* "2024-02-30"
     Some(Stamp("naive", Dec31, HMS(23, 59, 59))),      \* "2023-12-31T23:59:59"
     Some(Stamp("date", Jan01, 0)),                     \* "2024-01-01"
     Some(Stamp("offset", Jan15, HMS(10, 0, 0))),       \* "2024-01-15T10:00:00Z"
     Some(Stamp("naive", Jan31, HMS(23, 59, 0))),       \* "2024-01-31T23:59:00"
     Some(Stamp("naive", Jan31, HMS(23, 59, 59))),      \* "2024-01-31T23:59:59"
     Some(Stamp("date", Jan31, 0)),                     \* "2024-01-31"
     Some(Stamp("naive", Feb01, 0)),                    \* "2024-02-01T00:00:00"
     Some(Stamp("naive", Feb01, 1)),                    \* "2024-02-01T00:00:01"
     Some(Stamp("offset", Feb01, 1))}                   \* "2024-02-01T00:00:01+00:00"

FilterReviews == {[BaseReview EXCEPT !.created_at = c] : c \in FilterStamps}

RangeOf(a, b) == Some([start |-> Some(a), end |-> Some(b)])

FilterRanges ==
    {None, Some(EmptyDict),
     RangeOf(Jan01, Jan31), RangeOf(Jan31, Jan31), RangeOf(Dec31, Feb01),
     RangeOf(Feb01, Jan01),
     RangeOf(Garbage, Jan31),                           \* start is no date
     Some([start |-> Some(Jan01), end |-> None])}       \* no "end" key

InitFilter ==
    /\ pc = "call"
    /\ reviews \in SeqsUpTo(FilterReviews, MaxReviews)
    /\ date_range \in FilterRanges
    /\ HAS_DATEUTIL \in BOOLEAN
    /\ question = <<>>
    /\ product_id = None
    /\ today = None
    /\ ret = None
    /\ stats = None
    /\ negative_topics = None
    /\ positive_topics = None
    /\ NoChat
    /\ NoClient

CallFilter ==
    /\ pc = "call"
    /\ ret' = filter_reviews_by_date(reviews, date_range, HAS_DATEUTIL)
    /\ pc' = "filtered"
    /\ UNCHANGED <<question, reviews, date_range, product_id, today, HAS_DATEUTIL,
                   stats, negative_topics, positive_topics>>
    /\ UNCHANGED <<chatVars, clientVars>>

NextFilter == CallFilter

SpecFilter == InitFilter /\ [][NextFilter]_vars

\* The range is present and both its dates parse
ValidRange(dr) ==
    /\ dr # None
    /\ dr[1].start # None /\ dr[1].end # None
    /\ ValidDate(dr[1].start[1]) /\ ValidDate(dr[1].end[1])

(***************************************************************************)
(* C7. Given a valid date range, filter_reviews_by_date returns exactly    *)
(* the reviews, in their original order, whose timestamp t satisfies       *)
(* start 00:00:00 <= t <= end 23:59:59, for every timestamp written as a   *)
(* full ISO-8601 string, with or without a UTC offset, or as a date-only   *)
(* string.                                                                 *)
(***************************************************************************)
\* the timestamp is well-formed and lies in the range
ClaimInRange(r, dr) ==
    /\ r.created_at # None
    /\ r.created_at[1].k \in {"date", "naive", "offset"}
    /\ ValidDate(StampDate(r.created_at[1]))
    /\ LET t == DateTime(StampDate(r.created_at[1]),
                         IF r.created_at[1].k = "date" THEN 0 ELSE r.created_at[1].s,
                         FALSE)
       IN /\ Before(DateTime(dr[1].start[1], 0, FALSE), t)
          /\ Before(t, DateTime(dr[1].end[1], HMS(23, 59, 59), FALSE))

C7_KeepsExactlyTheRange ==
    (pc = "filtered" /\ ValidRange(date_range)) =>
        ret.val = SelectSeq(reviews, LAMBDA r : ClaimInRange(r, date_range))

\* What does hold: the same, on timestamps written without an offset.
C7_KeepsTheRangeOfNaiveStamps ==
    (/\ pc = "filtered" /\ ValidRange(date_range)
     /\ \A i \in DOMAIN reviews :
           reviews[i].created_at = None \/ reviews[i].created_at[1].k # "offset") =>
        ret.val = SelectSeq(reviews, LAMBDA r : ClaimInRange(r, date_range))

(***************************************************************************)
(* C8. With an absent date range, or with an empty review collection,      *)
(* filter_reviews_by_date returns the input collection itself: the same    *)
(* elements in the same order, nothing dropped, not even a review without  *)
(* a timestamp.                                                            *)
(***************************************************************************)
AbsentRange(dr) == dr = None \/ dr = Some(EmptyDict)

C8_AbsentRangeReturnsInput ==
    (pc = "filtered" /\ (AbsentRange(date_range) \/ reviews = <<>>)) =>
        (ret.val = reviews /\ ret.same)

C8_Witness ==
    /\ pc = "filtered"
    /\ date_range = None
    /\ Len(reviews) = MaxReviews
    /\ reviews[1].created_at = None
    /\ ret.val = reviews

(***************************************************************************)
(* C9. A review whose timestamp is missing, empty or unparsable is dropped *)
(* by the filtering loop, and nothing else changes: every other review is  *)
(* kept or dropped exactly as it would be if the bad review were not in    *)
(* the input.                                                              *)
(***************************************************************************)
BadStamp(r) ==
    \/ r.created_at = None
    \/ r.created_at[1].k \in {"empty", "junk"}
    \/ ~ValidDate(StampDate(r.created_at[1]))

C9_BadStampAffectsOnlyItself ==
    pc = "filtered" =>
        LET good == SelectSeq(reviews, LAMBDA r : ~BadStamp(r))
        IN /\ SelectSeq(ret.val, LAMBDA r : ~BadStamp(r))
                = filter_reviews_by_date(good, date_range, HAS_DATEUTIL).val
           /\ ValidRange(date_range) => \A i \in DOMAIN ret.val : ~BadStamp(ret.val[i])

C9_Witness ==
    /\ pc = "filtered"
    /\ ValidRange(date_range)
    /\ Len(reviews) = MaxReviews
    /\ BadStamp(reviews[1])
    /\ ~BadStamp(reviews[MaxReviews])
    /\ ret.val = <<reviews[MaxReviews]>>


(***************************************************************************)
(* Date-range resolver.                                                    *)
(***************************************************************************)
\* today - timedelta(days=1), and n days back
PrevDay(dt) ==
    IF dt.d > 1 THEN Date(dt.y, dt.m, dt.d - 1)
    ELSE IF dt.m > 1 THEN Date(dt.y, dt.m - 1, DaysInMonth(dt.y, dt.m - 1))
    ELSE Date(dt.y - 1, 12, 31)

RECURSIVE MinusDays(_, _)
MinusDays(dt, n) == IF n = 0 THEN dt ELSE MinusDays(PrevDay(dt), n - 1)

\* The words of the model's questions that are, end with or start with four
\* digits (\d{4} of the patterns), with the number they give
YearOfWord(w) ==
    CASE w = "2023" -> 2023
      [] w = "2026" -> 2026
      [] w = "0000" -> 0
      [] w = "2025-12-10" -> 2025
      [] w = "2026-01-09" -> 2026
      [] w = "01/09/2026" -> 2026
      [] w = "12/10/2025" -> 2025

EndsWithYear(w) == w \in {"2023", "2026", "0000", "12/10/2025", "01/09/2026"}
StartsWithYear(w) == w \in {"2023", "2026", "0000", "2025-12-10", "2026-01-09"}

\* SEP of the year-range pattern, among the model's words
IsSep(w) == w \in {"to", "until", "through", "till", "porjonto", "theke", "-"}

\* re.search(year_range_pattern, question): the places where it matches
YearRangeMatches(q) ==
    {i \in 1..(Len(q) - 2) :
        EndsWithYear(q[i]) /\ IsSep(q[i + 1]) /\ StartsWithYear(q[i + 2])}

\* re.search(year_from_pattern, question)
YearFromMatches(q) ==
    {i \in 1..(Len(q) - 1) : EndsWithYear(q[i]) /\ q[i + 1] = "theke"}

Min(S) == CHOOSE x \in S : \A y \in S : x <= y

\* re.search(r"(?:first|january|jan|1st|...)", question)
JanuaryMarker(q) ==
    \E i \in DOMAIN q : \E k \in {"first", "january", "jan", "1st"} : Sub(k, q[i])

\* Words made of \w characters only, and of digits only
IsWord(w) == w \notin {"-", "2025-12-10", "2026-01-09", "12/10/2025", "01/09/2026"}
IsDigits(w) == w \in {"2023", "2026", "0000", "7", "17", "10", "9", "30"}
StartsWithDigits(w) == IsDigits(w) \/ StartsWithYear(w) \/ w \in {"12/10/2025", "01/09/2026"}

MonthOfWord(w) == CASE w \in {"jan", "january"} -> 1 [] w = "feb" -> 2
                    [] w = "dec" -> 12 [] OTHER -> 0
\* the day number the leading digits of a word give, 0 when they are no day
DayOfWord(w) == CASE w = "7" -> 7 [] w = "17" -> 17 [] w = "10" -> 10 [] w = "9" -> 9
                  [] w = "30" -> 30 [] w = "12/10/2025" -> 12 [] w = "01/09/2026" -> 1
                  [] OTHER -> 0

\* The date a full date word gives
DateOfWord(w) ==
    CASE w = "2025-12-10" -> Date(2025, 12, 10)
      [] w = "2026-01-09" -> Date(2026, 1, 9)
      [] w = "12/10/2025" -> Date(2025, 12, 10)
      [] w = "01/09/2026" -> Date(2026, 1, 9)

\* The first date pattern, "(\w+\s+\d+)\s*[-]\s*(\w+\s+\d+)": where it matches
MonthDayMatches(q) ==
    {i \in 1..(Len(q) - 4) :
        /\ q[i] # "-" /\ IsDigits(q[i + 1]) /\ q[i + 2] = "-"
        /\ IsWord(q[i + 3]) /\ StartsWithDigits(q[i + 4])}

\* The second and third date patterns: two full dates around a dash
IsoMatches(q) ==
    {i \in 1..(Len(q) - 2) :
        /\ q[i] \in {"2025-12-10", "2026-01-09"} /\ q[i + 1] = "-"
        /\ q[i + 2] \in {"2025-12-10", "2026-01-09"}}

SlashMatches(q) ==
    {i \in 1..(Len(q) - 2) :
        /\ q[i] \in {"12/10/2025", "01/09/2026"} /\ q[i + 1] = "-"
        /\ q[i + 2] \in {"12/10/2025", "01/09/2026"}}

\* The parser of the build on the text "w n" of two words of the first date
\* pattern (n cut to its leading digits).  dateutil reads a month name and a
\* day as that day of the current year, a month name and a year as that month
\* with today's day (cut to the month's length), and rejects the other word
\* pairs of the model; the fallback parser knows only "%Y-%m-%d" and
\* "%Y-%m-%dT%H:%M:%S".
ParseMonthDay(w, n, now, dateutil) ==
    IF ~dateutil \/ MonthOfWord(w) = 0 THEN Raise
    ELSE IF DayOfWord(n) # 0
    THEN (IF ValidDate(Date(now.y, MonthOfWord(w), DayOfWord(n)))
          THEN Ok(Date(now.y, MonthOfWord(w), DayOfWord(n))) ELSE Raise)
    ELSE IF StartsWithYear(n) /\ YearOfWord(n) >= 1
    THEN Ok(Date(YearOfWord(n), MonthOfWord(w),
                 IF now.d > DaysInMonth(YearOfWord(n), MonthOfWord(w))
                 THEN DaysInMonth(YearOfWord(n), MonthOfWord(w)) ELSE now.d))
    ELSE Raise

\* The parser of the build on a full date word: the fallback parser does not
\* read "MM/DD/YYYY"
ParseDateWord(w, dateutil) ==
    IF w \in {"12/10/2025", "01/09/2026"} /\ ~dateutil THEN Raise
    ELSE IF ValidDate(DateOfWord(w)) THEN Ok(DateOfWord(w))
    ELSE Raise

\* Mutant: "previous month" takes the month before in the same year
RelativeRule_NoYearWrap(ql, now) ==
    IF AnyIn({<<"last", "7", "days">>, <<"past", "7", "days">>, <<"7", "days">>,
              <<"last", "week">>}, ql)
    THEN RangeOf(MinusDays(now, 7), now)
    ELSE IF AnyIn({<<"last", "30", "days">>, <<"past", "30", "days">>, <<"30", "days">>,
                   <<"last", "month">>}, ql)
    THEN RangeOf(MinusDays(now, 30), now)
    ELSE IF AnyIn({<<"this", "month">>, <<"current", "month">>}, ql)
    THEN RangeOf(Date(now.y, now.m, 1), now)
    ELSE IF AnyIn({<<"previous", "month">>, <<"last", "month">>}, ql)
    THEN LET m == IF now.m = 1 THEN 12 ELSE now.m - 1
         IN RangeOf(Date(now.y, m, 1), Date(now.y, m, DaysInMonth(now.y, m)))
    ELSE None

\* The relative phrases, tested on question.lower() in this order
\* Mutant: the previous-month phrases are tested before the 30-day phrases
RelativeRule_PreviousFirst(ql, now) ==
    IF AnyIn({<<"last", "7", "days">>, <<"past", "7", "days">>, <<"7", "days">>,
              <<"last", "week">>}, ql)
    THEN RangeOf(MinusDays(now, 7), now)
    ELSE IF AnyIn({<<"previous", "month">>, <<"last", "month">>}, ql)
    THEN LET last_day_prev_month == PrevDay(Date(now.y, now.m, 1))
         IN RangeOf(Date(last_day_prev_month.y, last_day_prev_month.m, 1),
                    last_day_prev_month)
    ELSE IF AnyIn({<<"last", "30", "days">>, <<"past", "30", "days">>, <<"30", "days">>,
                   <<"last", "month">>}, ql)
    THEN RangeOf(MinusDays(now, 30), now)
    ELSE IF AnyIn({<<"this", "month">>, <<"current", "month">>}, ql)
    THEN RangeOf(Date(now.y, now.m, 1), now)
    ELSE None

RelativeRule(ql, now) ==
    IF AnyIn({<<"last", "7", "days">>, <<"past", "7", "days">>, <<"7", "days">>,
              <<"last", "week">>}, ql)
    THEN RangeOf(MinusDays(now, 7), now)
    ELSE IF AnyIn({<<"last", "30", "days">>, <<"past", "30", "days">>, <<"30", "days">>,
                   <<"last", "month">>}, ql)
    THEN RangeOf(MinusDays(now, 30), now)
    ELSE IF AnyIn({<<"this", "month">>, <<"current", "month">>}, ql)
    THEN RangeOf(Date(now.y, now.m, 1), now)
    ELSE IF AnyIn({<<"previous", "month">>, <<"last", "month">>}, ql)
    THEN LET last_day_prev_month == PrevDay(Date(now.y, now.m, 1))
         IN RangeOf(Date(last_day_prev_month.y, last_day_prev_month.m, 1),
                    last_day_prev_month)
    ELSE None

\* Mutant: the January marker is not looked at
YearRangeRule_NoMarker(q) ==
    IF YearRangeMatches(q) = {} THEN None
    ELSE LET i == Min(YearRangeMatches(q))
             start_year == YearOfWord(q[i])
             end_year == YearOfWord(q[i + 2])
         IN IF ~ValidDate(Date(start_year, 1, 1)) \/ ~ValidDate(Date(end_year, 1, 31))
            THEN None
            ELSE RangeOf(Date(start_year, 1, 1), Date(end_year, 12, 31))

\* Pattern A: None when it does not match or datetime(...) raises
YearRangeRule(q) ==
    IF YearRangeMatches(q) = {} THEN None
    ELSE LET i == Min(YearRangeMatches(q))
             start_year == YearOfWord(q[i])
             end_year == YearOfWord(q[i + 2])
         IN IF ~ValidDate(Date(start_year, 1, 1)) \/ ~ValidDate(Date(end_year, 1, 31))
            THEN None
            ELSE IF JanuaryMarker(q)
            THEN RangeOf(Date(start_year, 1, 1), Date(end_year, 1, 31))
            ELSE RangeOf(Date(start_year, 1, 1), Date(end_year, 12, 31))

\* Pattern B
YearFromRule(q, now) ==
    IF YearFromMatches(q) = {} THEN None
    ELSE LET start_year == YearOfWord(q[Min(YearFromMatches(q))])
         IN IF ~ValidDate(Date(start_year, 1, 1)) THEN None
            ELSE RangeOf(Date(start_year, 1, 1), now)

\* The explicit date patterns, in their order; a pattern whose dates do not
\* parse is passed over
MonthDayRule(q, now, dateutil) ==
    IF MonthDayMatches(q) = {} THEN None
    ELSE LET i == Min(MonthDayMatches(q))
             a == ParseMonthDay(q[i], q[i + 1], now, dateutil)
             b == ParseMonthDay(q[i + 3], q[i + 4], now, dateutil)
         IN IF a.ok /\ b.ok THEN RangeOf(a.val, b.val) ELSE None

FullDateRule(q, matches, dateutil) ==
    IF matches = {} THEN None
    ELSE LET i == Min(matches)
             a == ParseDateWord(q[i], dateutil)
             b == ParseDateWord(q[i + 2], dateutil)
         IN IF a.ok /\ b.ok THEN RangeOf(a.val, b.val) ELSE None

TwoDateRule(q, now, dateutil) ==
    IF MonthDayRule(q, now, dateutil) # None THEN MonthDayRule(q, now, dateutil)
    ELSE IF FullDateRule(q, IsoMatches(q), dateutil) # None
    THEN FullDateRule(q, IsoMatches(q), dateutil)
    ELSE FullDateRule(q, SlashMatches(q), dateutil)


\* Mutant: the year-from pattern is tried before the year-range pattern
parse_date_range_YearFromFirst(q, now, dateutil) ==
    IF RelativeRule(LowerText(q), now) # None THEN RelativeRule(LowerText(q), now)
    ELSE IF YearFromRule(q, now) # None THEN YearFromRule(q, now)
    ELSE IF YearRangeRule(q) # None THEN YearRangeRule(q)
    ELSE TwoDateRule(q, now, dateutil)

\* Mutant: a pattern that matches ends the search, also when its dates
\* cannot be built
parse_date_range_StopAtFailure(q, now, dateutil) ==
    IF RelativeRule(LowerText(q), now) # None THEN RelativeRule(LowerText(q), now)
    ELSE IF YearRangeMatches(q) # {} THEN YearRangeRule(q)
    ELSE IF YearFromMatches(q) # {} THEN YearFromRule(q, now)
    ELSE TwoDateRule(q, now, dateutil)

parse_date_range(q, now, dateutil) ==
    IF RelativeRule(LowerText(q), now) # None THEN RelativeRule(LowerText(q), now)
    ELSE IF YearRangeRule(q) # None THEN YearRangeRule(q)
    ELSE IF YearFromRule(q, now) # None THEN YearFromRule(q, now)
    ELSE TwoDateRule(q, now, dateutil)


(***************************************************************************)
(* The resolver applied to a question.  A question of the model is made of *)
(* up to MaxChunks of these phrases.                                       *)
(***************************************************************************)
MaxChunks == 2

DateChunks ==
    {<<"last", "7", "days">>, <<"last", "month">>, <<"previous", "month">>,
     <<"2023", "theke", "2026">>, <<"2023", "to", "2026">>,
     <<"2023", "theke", "0000">>, <<"0000", "-", "2026">>,
     <<"2023", "theke">>, <<"0000", "theke">>,
     <<"january">>, <<"reviews">>, <<"-">>, <<"2026">>,
     <<"dec", "10", "-", "jan", "9">>, <<"2025-12-10", "-", "2026-01-09">>,
     <<"past", "7", "days">>, <<"past", "30", "days">>, <<"this", "month">>,
     <<"current", "month">>, <<"porjonto">>}

RECURSIVE Flatten(_)
Flatten(chunks) == IF chunks = <<>> THEN <<>> ELSE Head(chunks) \o Flatten(Tail(chunks))

DateQuestions == {Flatten(cs) : cs \in SeqsUpTo(DateChunks, MaxChunks)}

Todays == {Date(2024, 3, 15), Date(2024, 1, 5)}

InitDate ==
    /\ pc = "call"
    /\ question \in DateQuestions
    /\ today \in {Some(t) : t \in Todays}
    /\ HAS_DATEUTIL \in BOOLEAN
    /\ reviews = <<>>
    /\ date_range = None
    /\ product_id = None
    /\ ret = None
    /\ stats = None
    /\ negative_topics = None
    /\ positive_topics = None
    /\ NoChat
    /\ NoClient

CallParseDateRange ==
    /\ pc = "call"
    /\ ret' = parse_date_range(question, today[1], HAS_DATEUTIL)
    /\ pc' = "parsed"
    /\ UNCHANGED <<question, reviews, date_range, product_id, today, HAS_DATEUTIL,
                   stats, negative_topics, positive_topics>>
    /\ UNCHANGED <<chatVars, clientVars>>

NextDate == CallParseDateRange

SpecDate == InitDate /\ [][NextDate]_vars

(***************************************************************************)
(* C10. parse_date_range applies its rules in the order relative phrase,   *)
(* year-range pattern, year-from pattern, two-date pattern, and returns    *)
(* the range of the first rule that matches: with a relative phrase the    *)
(* relative range; else, when 'YEAR sep YEAR' matches, the range from      *)
(* January 1 of the first year to December 31 (January 31 with a January   *)
(* marker) of the second, never the year-from or two-date range; else,     *)
(* when 'YEAR theke' matches, January 1 of that year to today; else the    *)
(* two-date range.                                                         *)
(***************************************************************************)
HasRelative(q, now) == RelativeRule(LowerText(q), now) # None

\* the years of the first YEAR sep YEAR, and of the first YEAR theke
RangeYears(q) == LET i == Min(YearRangeMatches(q))
                 IN <<YearOfWord(q[i]), YearOfWord(q[i + 2])>>
FromYear(q) == YearOfWord(q[Min(YearFromMatches(q))])

ClaimYearRange(q) ==
    RangeOf(Date(RangeYears(q)[1], 1, 1),
            IF JanuaryMarker(q) THEN Date(RangeYears(q)[2], 1, 31)
            ELSE Date(RangeYears(q)[2], 12, 31))

C10_FirstMatchingRuleDecides ==
    pc = "parsed" =>
        LET q == question
            now == today[1]
        IN /\ HasRelative(q, now) => ret = RelativeRule(LowerText(q), now)
           /\ (~HasRelative(q, now) /\ YearRangeMatches(q) # {}) =>
                 ret = ClaimYearRange(q)
           /\ (~HasRelative(q, now) /\ YearRangeMatches(q) = {}
                 /\ YearFromMatches(q) # {}) =>
                 ret = RangeOf(Date(FromYear(q), 1, 1), now)
           /\ (~HasRelative(q, now) /\ YearRangeMatches(q) = {}
                 /\ YearFromMatches(q) = {}) =>
                 ret = TwoDateRule(q, now, HAS_DATEUTIL)

\* C10 as amended: a rule decides when it matches and its dates can be built
\* (a year of 0000 cannot); otherwise the next rule is tried.
RangeBuilds(q) ==
    YearRangeMatches(q) # {} /\ RangeYears(q)[1] >= 1 /\ RangeYears(q)[2] >= 1
FromBuilds(q) == YearFromMatches(q) # {} /\ FromYear(q) >= 1

C10_FirstRuleThatBuildsDecides ==
    pc = "parsed" =>
        LET q == question
            now == today[1]
        IN /\ HasRelative(q, now) => ret = RelativeRule(LowerText(q), now)
           /\ (~HasRelative(q, now) /\ RangeBuilds(q)) => ret = ClaimYearRange(q)
           /\ (~HasRelative(q, now) /\ ~RangeBuilds(q) /\ FromBuilds(q)) =>
                 ret = RangeOf(Date(FromYear(q), 1, 1), now)
           /\ (~HasRelative(q, now) /\ ~RangeBuilds(q) /\ ~FromBuilds(q)) =>
                 ret = TwoDateRule(q, now, HAS_DATEUTIL)


(***************************************************************************)
(* Evidence retrieval and quotes.                                          *)
(***************************************************************************)
RetrieveK == 8
QuoteWords == 12

\* the alphanumeric runs of a lowercase word (re.sub(r"[^a-z0-9\s]", " ", q))
AlnumRuns(w) ==
    CASE w = "-" -> <<>>
      [] w = "2025-12-10" -> <<"2025", "12", "10">>
      [] w = "2026-01-09" -> <<"2026", "01", "09">>
      [] w = "12/10/2025" -> <<"12", "10", "2025">>
      [] w = "01/09/2026" -> <<"01", "09", "2026">>
      [] w = "bob@example.com" -> <<"bob", "example", "com">>
      [] OTHER -> <<w>>

\* the words of the model shorter than 3 characters
ShortWords == {"7", "17", "10", "9", "30", "12", "01", "09", "to", "i", "ki", "ui"}

\* q_terms: the terms of the question of length >= 3
QTerms(q) ==
    SelectSeq(Flatten([i \in DOMAIN q |-> AlnumRuns(Lower(q[i]))]),
              LAMBDA w : w \notin ShortWords)

\* (r.get("product_title") or "").lower()
TitleOf(r) == IF r.product_title # None THEN LowerText(r.product_title[1]) ELSE <<>>

\* 2 per term found in the body, 1 per term found in the product title
Score(r, terms) ==
    2 * Cardinality({i \in DOMAIN terms :
                        Contains(<<terms[i]>>, LowerText(BodyOf(r)))})
    + Cardinality({i \in DOMAIN terms : Contains(<<terms[i]>>, TitleOf(r))})

\* retrieval without the fill of lines 273-276
retrieve_relevant_reviews_NoFill(q, rs, k) ==
    IF rs = <<>> THEN <<>>
    ELSE IF QTerms(q) = <<>> THEN Take(rs, k)
    ELSE LET scored == SelectSeq([i \in DOMAIN rs |->
                                    [n |-> Score(rs[i], QTerms(q)), r |-> rs[i]]],
                                 LAMBDA x : x.n > 0)
             sorted == SortDesc(scored, <<>>)
         IN [i \in DOMAIN Take(sorted, k) |-> sorted[i].r]

\* retrieval without the sort of line 271
retrieve_relevant_reviews_NoSort(q, rs, k) ==
    IF rs = <<>> THEN <<>>
    ELSE IF QTerms(q) = <<>> THEN Take(rs, k)
    ELSE LET scored == SelectSeq([i \in DOMAIN rs |->
                                    [n |-> Score(rs[i], QTerms(q)), r |-> rs[i]]],
                                 LAMBDA x : x.n > 0)
             top == [i \in DOMAIN Take(scored, k) |-> scored[i].r]
             rest == SelectSeq(rs, LAMBDA r : r \notin Range(top))
         IN Take(top \o Take(rest, k - Len(top)), k)

retrieve_relevant_reviews(q, rs, k) ==
    IF rs = <<>> THEN <<>>
    ELSE IF QTerms(q) = <<>> THEN Take(rs, k)
    ELSE LET scored == SelectSeq([i \in DOMAIN rs |->
                                    [n |-> Score(rs[i], QTerms(q)), r |-> rs[i]]],
                                 LAMBDA x : x.n > 0)
             sorted == SortDesc(scored, <<>>)
             top == [i \in DOMAIN Take(sorted, k) |-> sorted[i].r]
             rest == SelectSeq(rs, LAMBDA r : r \notin Range(top))
         IN Take(top \o Take(rest, k - Len(top)), k)

\* _mask_emails on one word
\* (re.sub replaces the non-overlapping matches found from the left: in
\* "a@b.co@c.de" the match is "a@b.co", and "@c.de" is left as it is)
MaskWord(w) ==
    CASE w = "bob@example.com" -> "b***@example.com"
      [] w = "a@b.co@c.de" -> "a***@b.co@c.de"
      [] OTHER -> w

\* _quote_max_words: the masked words, cut to max_words with a trailing ellipsis
quote_max_words(text, max_words) ==
    [words |-> [i \in DOMAIN Take(text, max_words) |-> MaskWord(text[i])],
     ellipsis |-> Len(text) > max_words]

\* the loop of build_evidence_quotes over the picks
RECURSIVE QuoteLoop(_, _, _)
QuoteLoop(picks, quotes, max_quotes) ==
    IF picks = <<>> THEN quotes
    ELSE IF BodyOf(Head(picks)) = <<>> THEN QuoteLoop(Tail(picks), quotes, max_quotes)
    ELSE LET quote == quote_max_words(BodyOf(Head(picks)), QuoteWords)
             appended == IF quote \notin Range(quotes) THEN Append(quotes, quote)
                         ELSE quotes
         IN IF Len(appended) >= max_quotes THEN appended
            ELSE QuoteLoop(Tail(picks), appended, max_quotes)

build_evidence_quotes(q, rs, max_quotes) ==
    QuoteLoop(retrieve_relevant_reviews(q, rs,
                  IF max_quotes > RetrieveK THEN max_quotes ELSE RetrieveK),
              <<>>, max_quotes)

(***************************************************************************)
(* The /ai/chat handler: responses and the intent router.                  *)
(***************************************************************************)
MaxQuotes == 3
DefaultLimit == 10000

ScreenshotKeys == {<<"screenshot">>, <<"ui", "generate">>, <<"report", "layout">>,
                   <<"ki", "show", "korbo">>}
ExportKeys == {<<"export">>, <<"csv">>, <<"download">>, <<"export", "kivabe">>}
QuantityKeys == {<<"total">>, <<"koyta">>, <<"how", "many">>, <<"koto">>}
QuantityNegativeKeys == {<<"negative">>, <<"neg">>, <<"kharap">>}
QuantityPositiveKeys == {<<"positive">>, <<"pos">>, <<"valo">>, <<"bhalo">>}
QuantityNeutralKeys == {<<"neutral">>}
QuantityRatingKeys == {<<"rating">>, <<"average">>, <<"avg">>}
TopicKeys == {<<"topic">>, <<"issue">>, <<"problem">>, <<"pain">>, <<"complaint">>,
              <<"praise">>}
TopicNegativeKeys == {<<"negative">>, <<"issue">>, <<"problem">>, <<"complaint">>,
                      <<"kharap">>}
TopicPositiveKeys == {<<"positive">>, <<"praise">>, <<"good">>, <<"valo">>}
ProductKeys == {<<"product">>, <<"item">>, <<"this", "product">>}
RecommendKeys == {<<"recommend">>, <<"suggest">>, <<"improve">>, <<"fix">>,
                  <<"what", "should">>, <<"ki", "kora">>}

\* Python truthiness of a date-range dict (None and {} are falsy)
DictTruthy(dr) == dr # None /\ dr # Some(EmptyDict)

\* AiChatResponse(answer=..., used_filters=...)
Answer(branch, body, filters) ==
    [kind |-> "answer", branch |-> branch, answer |-> body, used_filters |-> filters]

\* {"date_range": used_range, "product_id": request.product_id}
\*     if (used_range or request.product_id) else None
BothFilters(ur, pid) ==
    IF DictTruthy(ur) \/ pid # None
    THEN Some([date_range |-> ur, product_id |-> pid]) ELSE None

\* {"date_range": used_range} if used_range else None
DateFilterOnly(ur) == IF DictTruthy(ur) THEN Some([date_range |-> ur]) ELSE None

\* raise HTTPException(status_code=400, ...)
Http400 == [kind |-> "http400", branch |-> "none", answer |-> [detail |-> "required"],
            used_filters |-> None]

\* an exception that leaves the handler
Escapes(e) == [kind |-> "raised", branch |-> "none", answer |-> [error |-> e],
               used_filters |-> None]

\* Mutant: the handler has no top-level except clause
TopLevelExcept_Propagates(e) == Escapes(e)

\* the top-level `except Exception as e` of the handler: the apology answer
TopLevelExcept(e) == Answer("apology", [error |-> e], None)

\* str(r.get("product_id", ""))
ProductOf(r) == IF r.product_id = None THEN "" ELSE r.product_id[1]

\* the number of days from 0001-01-01 to a date
RECURSIVE DaysBeforeMonth(_, _)
DaysBeforeMonth(y, m) ==
    IF m = 1 THEN 0 ELSE DaysBeforeMonth(y, m - 1) + DaysInMonth(y, m - 1)
Ordinal(d) ==
    365 * (d.y - 1) + ((d.y - 1) \div 4) - ((d.y - 1) \div 100) + ((d.y - 1) \div 400)
    + DaysBeforeMonth(d.y, d.m) + d.d

\* span_days: None, or the width in days of a range with both dates
SpanDays(ur) ==
    IF ur = None \/ ur[1].start = None \/ ur[1].end = None THEN None
    ELSE IF ~strptime(ur[1].start[1]).ok \/ ~strptime(ur[1].end[1]).ok THEN None
    ELSE LET diff == Ordinal(ur[1].end[1]) - Ordinal(ur[1].start[1])
         IN Some(IF diff < 0 THEN -diff ELSE diff)

\* re.search(r"\b20(2[0-9])\b|theke|porjonto|...", q, re.IGNORECASE)
WantsHistory(q) ==
    \E i \in DOMAIN q :
        Lower(q[i]) \in {"2023", "2026", "theke", "porjonto", "2025-12-10", "2026-01-09",
                         "12/10/2025", "01/09/2026"}

\* the example reviews of the topic answer: of the first 5 reviews, the first
\* 2 whose body holds the top keyword
TopicEvidence(rs, kw) ==
    Take(SelectSeq([i \in DOMAIN Take(rs, 5) |-> BodyOf(rs[i])],
                   LAMBDA body : Contains(kw, LowerText(body))), 2)

\* len([r for r in filtered_reviews if r.get('rating')])
RatedCount(rs) == Cardinality({i \in DOMAIN rs : RatingTruthy(rs[i].rating)})

\* a router answer built with format_response_template, which raises into the
\* top-level except clause when the template step fails
Templated(resp, flt) == IF "template" \in flt THEN TopLevelExcept("template") ELSE resp

\* 3) quick stats: negative, positive, neutral, rating, else the breakdown
QuantityAnswer(ql, st, neg, pos, filt, ur, flt) ==
    IF AnyIn(QuantityNegativeKeys, ql)
    THEN Answer("quantity_negative",
                [count |-> st.negative_count, pct |-> st.negative_pct,
                 top |-> Take(neg, 1)],
                DateFilterOnly(ur))
    ELSE IF AnyIn(QuantityPositiveKeys, ql)
    THEN Answer("quantity_positive",
                [count |-> st.positive_count, pct |-> st.positive_pct,
                 top |-> Take(pos, 1)],
                DateFilterOnly(ur))
    ELSE IF AnyIn(QuantityNeutralKeys, ql)
    THEN Answer("quantity_neutral",
                [count |-> st.neutral_count, pct |-> st.neutral_pct],
                DateFilterOnly(ur))
    ELSE IF AnyIn(QuantityRatingKeys, ql)
    THEN Answer("quantity_rating",
                [avg |-> st.avg_rating,
                 rated |-> IF st.avg_rating # None THEN Some(RatedCount(filt)) ELSE None],
                DateFilterOnly(ur))
    ELSE Templated(Answer("quantity_total",
                          [total |-> st.total,
                           positive_count |-> st.positive_count,
                           positive_pct |-> st.positive_pct,
                           neutral_count |-> st.neutral_count,
                           neutral_pct |-> st.neutral_pct,
                           negative_count |-> st.negative_count,
                           negative_pct |-> st.negative_pct],
                          DateFilterOnly(ur)), flt)

\* 4) topics, negative sub-route
NegativeTopicsAnswer(neg, filt, ur, flt) ==
    IF neg = <<>>
    THEN Answer("topics_negative", [topics |-> <<>>, evidence |-> <<>>],
                DateFilterOnly(ur))
    ELSE Templated(Answer("topics_negative",
                          [topics |-> Take(neg, 3),
                           evidence |-> TopicEvidence(filt, neg[1].kw)],
                          DateFilterOnly(ur)), flt)

\* 4) topics, positive sub-route
PositiveTopicsAnswer(pos, ur, flt) ==
    IF pos = <<>>
    THEN Answer("topics_positive", [topics |-> <<>>], DateFilterOnly(ur))
    ELSE Templated(Answer("topics_positive", [topics |-> Take(pos, 3)],
                          DateFilterOnly(ur)), flt)

\* dr_label: the label of the request, else "start to end" of the range in
\* use (KeyError when the dict lacks a key), else "selected range"
DateLabel(label, ur) ==
    IF Truthy(label) THEN Ok(<<label[1]>>)
    ELSE IF DictTruthy(ur)
    THEN (IF ur[1].start = None \/ ur[1].end = None THEN Raise
          ELSE Ok(<<ur[1].start[1], ur[1].end[1]>>))
    ELSE Ok(<<"selected range">>)

\* the default path up to the generative call
CallModel == [kind |-> "llm", branch |-> "default", answer |-> [text |-> "none"],
              used_filters |-> None]

DefaultPath(label, ur) ==
    IF DateLabel(label, ur).ok THEN CallModel ELSE TopLevelExcept("KeyError")

\* The intent router: the response of the first branch that returns, or
\* CallModel when the request reaches the generative call.
Route(ql, st, neg, pos, filt, ur, pid, label, flt) ==
    IF AnyIn(ScreenshotKeys, ql)
    THEN Answer("screenshot",
                [top_negative |-> Take(neg, 1), top_positive |-> Take(pos, 1)],
                BothFilters(ur, pid))
    ELSE IF AnyIn(ExportKeys, ql)
    THEN Answer("export", [text |-> "columns and steps"], DateFilterOnly(ur))
    ELSE IF AnyIn(QuantityKeys, ql)
    THEN QuantityAnswer(ql, st, neg, pos, filt, ur, flt)
    ELSE IF AnyIn(TopicKeys, ql) /\ AnyIn(TopicNegativeKeys, ql)
    THEN NegativeTopicsAnswer(neg, filt, ur, flt)
    ELSE IF AnyIn(TopicKeys, ql) /\ AnyIn(TopicPositiveKeys, ql)
    THEN PositiveTopicsAnswer(pos, ur, flt)
    ELSE IF /\ pid # None
            /\ AnyIn(ProductKeys, ql)
            /\ SelectSeq(filt, LAMBDA r : ProductOf(r) = pid[1]) = <<>>
    THEN Answer("product_none", [text |-> "no reviews"], BothFilters(ur, pid))
    ELSE IF AnyIn(RecommendKeys, ql)
    THEN Templated(Answer("recommendation",
                          [total |-> st.total,
                           top_negative |-> Take(neg, 1),
                           top_positive |-> Take(pos, 1)],
                          DateFilterOnly(ur)), flt)
    ELSE DefaultPath(label, ur)

\* user_context: what the prompt is built from
Prompt(q, st, neg, pos, quotes, filt, label, ur) ==
    [date_range |-> DateLabel(label, ur).val,
     stats |-> st,
     negative_topics |-> Take(neg, 5),
     positive_topics |-> Take(pos, 5),
     evidence_quotes |-> quotes,
     sample_reviews_count |-> Len(Take(filt, 5)),
     question |-> q]

\* The fallbacks after a failed generative call: the deterministic template,
\* then the minimal numeric string, then the top-level except clause.
FallbackAnswer(st, ur, flt) ==
    IF "template" \notin flt
    THEN Answer("template",
                [total |-> st.total,
                 positive_count |-> st.positive_count,
                 positive_pct |-> st.positive_pct,
                 negative_count |-> st.negative_count,
                 negative_pct |-> st.negative_pct],
                DateFilterOnly(ur))
    ELSE IF "minimal" \notin flt
    THEN Answer("minimal",
                [total |-> st.total,
                 positive_count |-> st.positive_count,
                 negative_count |-> st.negative_count],
                None)
    ELSE TopLevelExcept("minimal")

(***************************************************************************)
(* The /ai/chat handler as a state machine: one request from its arrival   *)
(* to its response, with the answers of the review source and of the       *)
(* generative model chosen by the environment.                             *)
(***************************************************************************)
ChatReview(rating, label, body, day, pid) ==
    [BaseReview EXCEPT !.rating = rating, !.sentiment_label = label,
                       !.body = Some(body),
                       !.created_at = Some(Stamp("date", day, 0)),
                       !.product_id = Some(pid)]

Praise == ChatReview(Num(5 * RatingScale), None, <<"great", "quality">>, Jan15, "p1")
Complaint == ChatReview(Num(1 * RatingScale), None, <<"Battery", "died">>, Feb01, "p2")
\* a review whose sentiment label is not a string
OddLabel == ChatReview(NoRating, Some("#1"), <<"ok">>, Jan15, "p1")

ChatCollections == {<<>>, <<Praise>>, <<Praise, Complaint>>, <<OddLabel>>,
                    <<Complaint, OddLabel>>}

\* what one call of the review source does: raise, or return a list
FetchOutcomes == {Raise, Ok(<<>>), Ok(<<Complaint, Praise>>)}

\* what one call of the generative model does: raise GroqError, or return text
ModelOutcomes == {Raise, Ok("text")}

ChatQuestions ==
    {<<>>, <<"  ">>,
     <<"screenshot", "export">>, <<"export", "csv">>,
     <<"how", "many", "negative">>, <<"how", "many", "positive">>,
     <<"how", "many", "negative", "positive", "neutral", "rating">>,
     <<"total", "neutral">>, <<"total", "rating">>, <<"total">>,
     <<"how", "many", "improve">>, <<"last", "7", "days", "total">>,
     <<"top", "issues">>, <<"praise">>,
     <<"what", "topics", "should", "i", "fix">>, <<"pain", "points">>,
     <<"this", "product">>, <<"recommend">>,
     <<"battery", "life">>, <<"2023", "theke", "2026">>,
     <<"2023", "theke", "0000">>, <<"0000", "theke">>,
     <<"dec", "30", "-", "feb", "30">>}

\* (request.date_range, request.date_range_label)
ChatRanges ==
    {<<None, None>>, <<RangeOf(Jan01, Jan31), None>>,
     <<Some([start |-> None, end |-> Some(Jan31)]), None>>,
     <<Some([start |-> None, end |-> Some(Jan31)]), Some("January")>>}

FaultSteps == {"parse", "date_filter", "product_filter", "stats", "topics",
               "evidence", "template", "minimal"}

FaultSets == {{}} \cup {{f} : f \in FaultSteps \ {"minimal"}}
             \cup {{"template", "minimal"}, FaultSteps}

InitChat ==
    /\ pc = "start"
    /\ question \in ChatQuestions
    /\ reviews \in ChatCollections
    /\ \E dr \in ChatRanges : date_range = dr[1] /\ date_range_label = dr[2]
    /\ product_id \in {None, Some("p1")}
    /\ shopify \in {None, Some([limit |-> 0])}
    /\ today = Some(Date(2024, 3, 15))
    /\ HAS_DATEUTIL \in BOOLEAN
    /\ faults \in FaultSets
    /\ NoClient
    /\ raw_reviews = <<>>
    /\ used_range = None
    /\ filtered_reviews = <<>>
    /\ evidence_quotes = <<>>
    /\ calls = <<>>
    /\ ret = None
    /\ stats = None
    /\ negative_topics = None
    /\ positive_topics = None

requestVars == <<question, reviews, date_range, date_range_label, product_id,
                 shopify, today, HAS_DATEUTIL, faults>>

\* int(shop_dict.get("limit") or 10000)
FetchLimit == IF shopify[1].limit = 0 THEN DefaultLimit ELSE shopify[1].limit

\* the words of the questions of the model
AllWords == UNION {Range(q) : q \in ChatQuestions} \ {" ", "  "}

\* the check without the strip
Blank_EmptyOnly(q) == q = <<>>

\* q = (request.question or "").strip(); not q
Blank(q) == \A i \in DOMAIN q : q[i] \in {" ", "  "}

\* 400 when the question is blank; raw_reviews
Receive ==
    /\ pc = "start"
    /\ IF Blank(question)
       THEN /\ ret' = Http400
            /\ pc' = "done"
            /\ UNCHANGED raw_reviews
       ELSE /\ raw_reviews' = reviews
            /\ pc' = "fetch"
            /\ UNCHANGED ret
    /\ UNCHANGED <<clientVars, requestVars, used_range, filtered_reviews, evidence_quotes, calls,
                   stats, negative_topics, positive_topics>>

\* the optional server-side fetch: any non-empty list replaces the reviews
FirstFetch ==
    /\ pc = "fetch"
    /\ IF Len(raw_reviews) < 100 /\ shopify # None
       THEN \E out \in FetchOutcomes :
               /\ calls' = Append(calls, [op |-> "fetch", limit |-> FetchLimit,
                                          out |-> out])
               /\ raw_reviews' = IF out.ok /\ out.val # <<>> THEN out.val
                                 ELSE raw_reviews
       ELSE UNCHANGED <<calls, raw_reviews>>
    /\ pc' = "range"
    /\ UNCHANGED <<clientVars, requestVars, ret, used_range, filtered_reviews, evidence_quotes,
                   stats, negative_topics, positive_topics>>

\* Mutant: used_range = request.date_range or parsed_range
ResolveRange_CallerFirst ==
    /\ pc = "range"
    /\ LET parsed_range == IF "parse" \in faults THEN None
                           ELSE parse_date_range(question, today[1], HAS_DATEUTIL)
       IN used_range' = IF DictTruthy(date_range) THEN date_range ELSE parsed_range
    /\ pc' = "history"
    /\ UNCHANGED <<clientVars, requestVars, ret, raw_reviews, filtered_reviews,
                   evidence_quotes, calls, stats, negative_topics, positive_topics>>

\* used_range = parsed_range or request.date_range
ResolveRange ==
    /\ pc = "range"
    /\ LET parsed_range == IF "parse" \in faults THEN None
                           ELSE parse_date_range(question, today[1], HAS_DATEUTIL)
       IN used_range' = IF parsed_range # None THEN parsed_range ELSE date_range
    /\ pc' = "history"
    /\ UNCHANGED <<clientVars, requestVars, ret, raw_reviews, filtered_reviews, evidence_quotes,
                   calls, stats, negative_topics, positive_topics>>

\* Mutant: the history fetch replaces the reviews by any non-empty result
HistoryFetch_AnyNonEmpty ==
    /\ pc = "history"
    /\ IF /\ shopify # None
          /\ (WantsHistory(question)
                \/ (SpanDays(used_range) # None /\ SpanDays(used_range)[1] > 90))
          /\ Len(raw_reviews) < 1000
       THEN \E out \in FetchOutcomes :
               /\ calls' = Append(calls, [op |-> "fetch", limit |-> FetchLimit,
                                          out |-> out])
               /\ raw_reviews' = IF out.ok /\ out.val # <<>>
                                 THEN out.val ELSE raw_reviews
       ELSE UNCHANGED <<calls, raw_reviews>>
    /\ pc' = "analyze"
    /\ UNCHANGED <<clientVars, requestVars, ret, used_range, filtered_reviews, evidence_quotes,
                   stats, negative_topics, positive_topics>>

\* the history fetch: only a strictly longer list replaces the reviews
HistoryFetch ==
    /\ pc = "history"
    /\ IF /\ shopify # None
          /\ (WantsHistory(question)
                \/ (SpanDays(used_range) # None /\ SpanDays(used_range)[1] > 90))
          /\ Len(raw_reviews) < 1000
       THEN \E out \in FetchOutcomes :
               /\ calls' = Append(calls, [op |-> "fetch", limit |-> FetchLimit,
                                          out |-> out])
               /\ raw_reviews' = IF out.ok /\ Len(out.val) > Len(raw_reviews)
                                 THEN out.val ELSE raw_reviews
       ELSE UNCHANGED <<calls, raw_reviews>>
    /\ pc' = "analyze"
    /\ UNCHANGED <<clientVars, requestVars, ret, used_range, filtered_reviews, evidence_quotes,
                   stats, negative_topics, positive_topics>>

\* filtered_reviews after the date filter (kept unfiltered when it raises)
DateFiltered ==
    IF DictTruthy(used_range) /\ "date_filter" \notin faults
    THEN filter_reviews_by_date(raw_reviews, used_range, HAS_DATEUTIL).val
    ELSE raw_reviews

\* and after the product filter (kept as it is when it raises)
ProductFiltered ==
    IF product_id # None /\ "product_filter" \notin faults
    THEN SelectSeq(DateFiltered, LAMBDA r : ProductOf(r) = product_id[1])
    ELSE DateFiltered

\* stats, or the zero stats when compute_stats_from_reviews raises
StatsOrDefault(rs) ==
    IF "stats" \notin faults /\ compute_stats_from_reviews(rs).ok
    THEN compute_stats_from_reviews(rs).val
    ELSE EmptyStats

\* both topic lists, or two empty lists when either extraction raises
TopicsOrDefault(rs) ==
    LET neg == extract_topics_from_reviews(rs, "negative", TopK)
        pos == extract_topics_from_reviews(rs, "positive", TopK)
    IN IF "topics" \notin faults /\ neg.ok /\ pos.ok THEN <<neg.val, pos.val>>
       ELSE <<(<<>>), (<<>>)>>

\* the filters, the stats, the topics and the evidence quotes
Analyze ==
    /\ pc = "analyze"
    /\ filtered_reviews' = ProductFiltered
    /\ stats' = StatsOrDefault(ProductFiltered)
    /\ negative_topics' = TopicsOrDefault(ProductFiltered)[1]
    /\ positive_topics' = TopicsOrDefault(ProductFiltered)[2]
    /\ evidence_quotes' = IF "evidence" \in faults THEN <<>>
                          ELSE build_evidence_quotes(question, ProductFiltered, MaxQuotes)
    /\ pc' = "route"
    /\ UNCHANGED <<clientVars, requestVars, ret, raw_reviews, used_range, calls>>

\* the intent router: a branch returns, or the request goes on to the model
RouteIntent ==
    /\ pc = "route"
    /\ LET resp == Route(LowerText(question), stats, negative_topics, positive_topics,
                         filtered_reviews, used_range, product_id, date_range_label,
                         faults)
       IN IF resp = CallModel
          THEN pc' = "llm" /\ UNCHANGED ret
          ELSE pc' = "done" /\ ret' = resp
    /\ UNCHANGED <<clientVars, requestVars, raw_reviews, used_range, filtered_reviews,
                   evidence_quotes, calls, stats, negative_topics, positive_topics>>

\* the generative call and, when it raises, the fallbacks
Generate ==
    /\ pc = "llm"
    /\ \E out \in ModelOutcomes :
          /\ calls' = Append(calls,
                             [op |-> "llm",
                              prompt |-> Prompt(question, stats, negative_topics,
                                                positive_topics, evidence_quotes,
                                                filtered_reviews, date_range_label,
                                                used_range),
                              out |-> out])
          /\ ret' = IF out.ok
                    THEN Answer("llm", [text |-> out.val],
                                BothFilters(used_range, product_id))
                    ELSE FallbackAnswer(stats, used_range, faults)
    /\ pc' = "done"
    /\ UNCHANGED <<clientVars, requestVars, raw_reviews, used_range, filtered_reviews,
                   evidence_quotes, stats, negative_topics, positive_topics>>

NextChat ==
    \/ Receive
    \/ FirstFetch
    \/ ResolveRange
    \/ HistoryFetch
    \/ Analyze
    \/ RouteIntent
    \/ Generate

SpecChat == InitChat /\ [][NextChat]_vars


(***************************************************************************)
(* C3. ai_chat routes a question by testing the intents in the order       *)
(* screenshot, export, quantity, topic, product-with-no-reviews,           *)
(* recommendation, default: the first intent whose keyword set matches the *)
(* lowercased question produces the answer and no later intent is          *)
(* evaluated; in particular a question with a topic keyword is never       *)
(* answered by the recommendation or the default path.                     *)
(***************************************************************************)
\* the first intent whose keywords the question holds
ClaimIntent(ql, pid, filt) ==
    IF AnyIn(ScreenshotKeys, ql) THEN "screenshot"
    ELSE IF AnyIn(ExportKeys, ql) THEN "export"
    ELSE IF AnyIn(QuantityKeys, ql) THEN "quantity"
    ELSE IF AnyIn(TopicKeys, ql) THEN "topic"
    ELSE IF /\ pid # None /\ AnyIn(ProductKeys, ql)
            /\ \A i \in DOMAIN filt : ProductOf(filt[i]) # pid[1] THEN "product"
    ELSE IF AnyIn(RecommendKeys, ql) THEN "recommendation"
    ELSE "default"

\* the intent an answer comes from
IntentOfBranch(branch) ==
    CASE branch \in {"quantity_negative", "quantity_positive", "quantity_neutral",
                     "quantity_rating", "quantity_total"} -> "quantity"
      [] branch \in {"topics_negative", "topics_positive"} -> "topic"
      [] branch = "product_none" -> "product"
      [] branch \in {"llm", "template", "minimal"} -> "default"
      [] OTHER -> branch

C3_FirstMatchingIntentAnswers ==
    (pc = "done" /\ faults = {} /\ ret.kind = "answer" /\ ret.branch # "apology") =>
        IntentOfBranch(ret.branch)
            = ClaimIntent(LowerText(question), product_id, filtered_reviews)

(***************************************************************************)
(* C4. Every answer of ai_chat, on every router branch and every fallback, *)
(* reports the filters that were applied: when a date range was used to    *)
(* filter, the response carries that date range, and when a product id was *)
(* used to filter, the response carries that product id.                   *)
(***************************************************************************)
C4_AnswerReportsAppliedFilters ==
    (pc = "done" /\ faults = {} /\ ret.kind = "answer") =>
        /\ ValidRange(used_range) =>
              /\ ret.used_filters # None
              /\ ret.used_filters[1].date_range = used_range
        /\ product_id # None =>
              /\ ret.used_filters # None
              /\ "product_id" \in DOMAIN ret.used_filters[1]
              /\ ret.used_filters[1].product_id = product_id

(***************************************************************************)
(* C5. For every non-empty question ai_chat returns an answer and lets no  *)
(* exception escape, whichever steps fail (review fetch, date parsing,     *)
(* date or product filtering, stats, topic extraction, evidence retrieval, *)
(* generative call, deterministic template): each failure is replaced by   *)
(* its default or the next fallback, and any other error becomes the       *)
(* apology answer.                                                         *)
(***************************************************************************)
\* the generative call was made and raised
ModelRaised == calls # <<>> /\ calls[Len(calls)].op = "llm" /\ ~calls[Len(calls)].out.ok

C5_AlwaysAnswers ==
    (pc = "done" /\ ~Blank(question)) =>
        /\ ret.kind = "answer"
        /\ "parse" \in faults => used_range = date_range
        /\ ("date_filter" \in faults /\ product_id = None) =>
              filtered_reviews = raw_reviews
        /\ ("product_filter" \in faults /\ ~DictTruthy(used_range)) =>
              filtered_reviews = raw_reviews
        /\ "stats" \in faults => stats = EmptyStats
        /\ "topics" \in faults => (negative_topics = <<>> /\ positive_topics = <<>>)
        /\ "evidence" \in faults => evidence_quotes = <<>>
        /\ ModelRaised =>
              ret.branch = IF "template" \notin faults THEN "template"
                           ELSE IF "minimal" \notin faults THEN "minimal"
                           ELSE "apology"

\* every step fails: both fetches and the generative call raise, and so do
\* the steps in between and both fallbacks
C5_Witness ==
    /\ pc = "done"
    /\ faults = FaultSteps
    /\ Len(calls) = 3
    /\ \A i \in DOMAIN calls : ~calls[i].out.ok
    /\ ret.kind = "answer"
    /\ ret.branch = "apology"

(***************************************************************************)
(* C6. On the default path, whenever the generative call raises, ai_chat   *)
(* still returns a non-empty answer that contains the total count of the   *)
(* filtered reviews; the fallbacks are tried in the order generative call, *)
(* deterministic template, minimal numeric string, a later one only when   *)
(* the one before it failed.                                               *)
(***************************************************************************)
C6_FallbackAnswerHasTotal ==
    (pc = "done" /\ ModelRaised /\ faults \in {{}, {"template"}}) =>
        /\ ret.kind = "answer"
        /\ ret.branch = IF faults = {} THEN "template" ELSE "minimal"
        /\ ret.answer.total = Len(filtered_reviews)

\* "2023 theke 2026" matches the year-range and the year-from pattern and is
\* resolved by the year-range rule
C10_Witness ==
    /\ pc = "parsed"
    /\ question = <<"2023", "theke", "2026">>
    /\ YearFromMatches(question) # {}
    /\ ret = RangeOf(Date(2023, 1, 1), Date(2026, 12, 31))

(***************************************************************************)
(* C11. parse_date_range maps the relative phrases, with today the current *)
(* date: "last/past 7 days" gives [today - 7 days, today], exactly 7 days  *)
(* wide and ending today; "last/past 30 days" gives [today - 30 days,      *)
(* today]; "this/current month" gives [first day of the month, today];     *)
(* "previous month" gives the first and the last day of the prior calendar *)
(* month, also across a year boundary.  Each phrase is read with no phrase *)
(* of an earlier group in the question.                                    *)
(***************************************************************************)
SevenGroup(ql) ==
    AnyIn({<<"last", "7", "days">>, <<"past", "7", "days">>, <<"7", "days">>,
           <<"last", "week">>}, ql)
ThirtyGroup(ql) ==
    AnyIn({<<"last", "30", "days">>, <<"past", "30", "days">>, <<"30", "days">>,
           <<"last", "month">>}, ql)
ThisMonthGroup(ql) == AnyIn({<<"this", "month">>, <<"current", "month">>}, ql)

\* the range ends today and is n days wide
EndsTodayWidth(r, now, n) ==
    /\ r # None
    /\ r[1].end = Some(now)
    /\ r[1].start # None
    /\ ValidDate(r[1].start[1])
    /\ Ordinal(now) - Ordinal(r[1].start[1]) = n

\* the prior calendar month of a date
PriorMonth(now) ==
    LET y == IF now.m = 1 THEN now.y - 1 ELSE now.y
        m == IF now.m = 1 THEN 12 ELSE now.m - 1
    IN RangeOf(Date(y, m, 1), Date(y, m, DaysInMonth(y, m)))

C11_RelativePhrases ==
    pc = "parsed" =>
        LET ql == LowerText(question)
            now == today[1]
        IN /\ AnyIn({<<"last", "7", "days">>, <<"past", "7", "days">>}, ql) =>
                 EndsTodayWidth(ret, now, 7)
           /\ (AnyIn({<<"last", "30", "days">>, <<"past", "30", "days">>}, ql)
                 /\ ~SevenGroup(ql)) =>
                 EndsTodayWidth(ret, now, 30)
           /\ (ThisMonthGroup(ql) /\ ~SevenGroup(ql) /\ ~ThirtyGroup(ql)) =>
                 ret = RangeOf(Date(now.y, now.m, 1), now)
           /\ (AnyIn({<<"previous", "month">>}, ql) /\ ~SevenGroup(ql)
                 /\ ~ThirtyGroup(ql) /\ ~ThisMonthGroup(ql)) =>
                 ret = PriorMonth(now)

\* "previous month" asked on 2024-01-05: the whole of December 2023
C11_Witness ==
    /\ pc = "parsed"
    /\ question = <<"previous", "month">>
    /\ today = Some(Date(2024, 1, 5))
    /\ ret = RangeOf(Date(2023, 12, 1), Date(2023, 12, 31))

(***************************************************************************)
(* C12. For a question matching the year-range pattern "Y1 sep Y2" and     *)
(* holding no relative phrase, parse_date_range returns start = Y1-01-01   *)
(* and end = Y2-12-31, or end = Y2-01-31 when the question also holds a    *)
(* January/"first" marker.                                                 *)
(***************************************************************************)
YearRangeBounds(q, r) ==
    /\ r # None
    /\ r[1].start = Some(Date(RangeYears(q)[1], 1, 1))
    /\ r[1].end = Some(Date(RangeYears(q)[2],
                            IF JanuaryMarker(q) THEN 1 ELSE 12, 31))

C12_YearRangeBounds ==
    (pc = "parsed" /\ ~HasRelative(question, today[1])
       /\ YearRangeMatches(question) # {}) =>
        YearRangeBounds(question, ret)

\* C12 as amended: for the years datetime can build (0001 and later)
C12_YearRangeBoundsOfBuildableYears ==
    (pc = "parsed" /\ ~HasRelative(question, today[1])
       /\ YearRangeMatches(question) # {}
       /\ RangeYears(question)[1] >= 1 /\ RangeYears(question)[2] >= 1) =>
        YearRangeBounds(question, ret)

C12_Witness ==
    /\ pc = "parsed"
    /\ question = <<"2023", "theke", "2026", "january">>
    /\ ret = RangeOf(Date(2023, 1, 1), Date(2026, 1, 31))

(***************************************************************************)
(* C13. parse_date_range never raises: when a pattern matches but its      *)
(* dates cannot be built or parsed (year 0000, an impossible month/day),   *)
(* the failure is swallowed and the next pattern is tried; when no pattern *)
(* yields a range the result is None, which ai_chat treats as no date      *)
(* filtering and not as an error.                                          *)
(***************************************************************************)
\* a range of two dates that exist
WellFormedRange(r) ==
    /\ r[1].start # None /\ ValidDate(r[1].start[1])
    /\ r[1].end # None /\ ValidDate(r[1].end[1])

\* no rule of the resolver gives a range for the question
NothingResolves(q, now, dateutil) ==
    /\ ~HasRelative(q, now)
    /\ ~RangeBuilds(q)
    /\ ~FromBuilds(q)
    /\ TwoDateRule(q, now, dateutil) = None

C13_ResolverFailuresAreSwallowed ==
    (pc = "done" /\ faults = {} /\ ~Blank(question)) =>
        LET q == question
            now == today[1]
        IN /\ used_range = None \/ used_range = date_range \/ WellFormedRange(used_range)
           /\ (~HasRelative(q, now) /\ YearRangeMatches(q) # {} /\ ~RangeBuilds(q)
                 /\ FromBuilds(q)) =>
                 used_range = RangeOf(Date(FromYear(q), 1, 1), now)
           /\ NothingResolves(q, now, HAS_DATEUTIL) => used_range = date_range
           /\ used_range = None =>
                 /\ filtered_reviews =
                       SelectSeq(raw_reviews,
                                 LAMBDA r : product_id = None
                                            \/ ProductOf(r) = product_id[1])
                 /\ ret.kind = "answer"
                 /\ ret.branch # "apology"

\* "dec 30 - feb 30" matches the first date pattern and February 30 cannot be
\* parsed: no range, both reviews kept, the request answered
C13_Witness ==
    /\ pc = "done"
    /\ faults = {}
    /\ HAS_DATEUTIL
    /\ question = <<"dec", "30", "-", "feb", "30">>
    /\ MonthDayMatches(question) # {}
    /\ used_range = None
    /\ filtered_reviews = <<Praise, Complaint>>
    /\ ret.kind = "answer"
    /\ ret.branch = "llm"

(***************************************************************************)
(* C14. For every review collection compute_stats_from_reviews returns     *)
(* total = the number of reviews, non-negative positive, negative and      *)
(* neutral counts that sum to total (reviews without a numeric rating are  *)
(* counted too), and three percentages in [0, 100], each computed from its *)
(* own count as count / total * 100; for the empty collection the total    *)
(* and the counts are 0 and the average rating is absent.                  *)
(***************************************************************************)
\* pct (in tenths of a percent) is count / total * 100 rounded to one decimal
IsPctOf(pct, count, total) ==
    /\ 0 <= pct /\ pct <= 1000
    /\ IF total = 0 THEN pct = 0
       ELSE LET err == pct * total - 1000 * count
            IN 2 * err <= total /\ -2 * err <= total

StatsTotals(st, rs) ==
    /\ st.total = Len(rs)
    /\ st.positive_count >= 0 /\ st.negative_count >= 0 /\ st.neutral_count >= 0
    /\ st.positive_count + st.negative_count + st.neutral_count = st.total
    /\ IsPctOf(st.positive_pct, st.positive_count, st.total)
    /\ IsPctOf(st.negative_pct, st.negative_count, st.total)
    /\ IsPctOf(st.neutral_pct, st.neutral_count, st.total)
    /\ rs = <<>> => st.avg_rating = None

C14_StatsTotals ==
    pc \in {"stats", "topics"} => (stats.ok /\ StatsTotals(stats.val, reviews))

\* What does hold: the same, for the calls that return.
C14_StatsTotalsWhenReturns ==
    (pc \in {"stats", "topics"} /\ stats.ok) => StatsTotals(stats.val, reviews)

(***************************************************************************)
(* The topic extractor applied to reviews with different bodies.           *)
(***************************************************************************)
TopicReview(rating, label, body) ==
    [BaseReview EXCEPT !.rating = rating, !.sentiment_label = label, !.body = body]

TopicReviews ==
    {TopicReview(Num(1 * RatingScale), None, Some(<<"Battery", "died">>)),
     TopicReview(Num(1 * RatingScale), None, Some(<<"wrong", "sizes">>)),
     TopicReview(Num(5 * RatingScale), None, Some(<<"great", "quality">>)),
     TopicReview(Num(5 * RatingScale), Some("negative"), Some(<<"battery", "battery">>)),
     TopicReview(Num(3 * RatingScale), None, Some(<<"battery", "size">>)),
     TopicReview(Num(1 * RatingScale), Some("positive"), Some(<<"Battery", "died">>)),
     TopicReview(NoRating, Some("NEGATIVE"), Some(<<"size", "Battery">>)),
     [TopicReview(Num(2 * RatingScale), None, None)
        EXCEPT !.text = Some(<<"slow", "shipping">>)],
     TopicReview(StrRating, None, Some(<<"battery">>))}

InitTopics ==
    /\ pc = "call"
    /\ reviews \in SeqsUpTo(TopicReviews, MaxReviews)
    /\ question = <<>>
    /\ date_range = None
    /\ product_id = None
    /\ today = None
    /\ HAS_DATEUTIL = TRUE
    /\ ret = None
    /\ stats = None
    /\ negative_topics = None
    /\ positive_topics = None
    /\ NoChat
    /\ NoClient

SpecTopics == InitTopics /\ [][NextStats]_vars

(***************************************************************************)
(* C15. extract_topics_from_reviews returns at most top_k entries ordered  *)
(* by count descending, and entries with equal counts appear in the order  *)
(* of the fixed keyword list, whatever the order of the reviews.           *)
(***************************************************************************)
\* the place of a keyword in the keyword list
KeywordIndex(kw) == CHOOSE k \in DOMAIN keywords : keywords[k] = kw

TopKInListOrder(topics, top_k) ==
    /\ Len(topics) <= top_k
    /\ \A i, j \in DOMAIN topics :
          i < j => \/ topics[i].n > topics[j].n
                   \/ /\ topics[i].n = topics[j].n
                      /\ KeywordIndex(topics[i].kw) < KeywordIndex(topics[j].kw)

C15_TiesInKeywordListOrder ==
    pc = "topics" =>
        /\ negative_topics.ok => TopKInListOrder(negative_topics.val, TopK)
        /\ positive_topics.ok => TopKInListOrder(positive_topics.val, TopK)

(***************************************************************************)
(* C16. For each sentiment class, the count extract_topics_from_reviews    *)
(* reports for a keyword is the number of reviews of that class's scan set *)
(* whose lowercased body contains the keyword; a review adds at most 1 to  *)
(* a keyword and no entry has count 0; a keyword that occurs only in       *)
(* negative-classified reviews appears with its count in the negative list *)
(* and not at all in the positive list.                                    *)
(***************************************************************************)
\* the reviews that hold the keyword, and those of them that are scanned
Holders(rs, kw) == {i \in DOMAIN rs : Contains(kw, LowerText(BodyOf(rs[i])))}
TrueCount(rs, sentiment, kw) == Cardinality(Holders(rs, kw) \cap ScanSet(rs, sentiment))

Listed(topics) == {topics[i].kw : i \in DOMAIN topics}

CountsOfScanSet(topics, rs, sentiment, top_k) ==
    /\ \A i \in DOMAIN topics :
          /\ topics[i].n = TrueCount(rs, sentiment, topics[i].kw)
          /\ topics[i].n >= 1
          /\ topics[i].n <= Len(rs)
    /\ \A i, j \in DOMAIN topics : i # j => topics[i].kw # topics[j].kw
    /\ Cardinality({kw \in Range(keywords) : TrueCount(rs, sentiment, kw) >= 1}) <= top_k =>
          \A kw \in Range(keywords) :
              TrueCount(rs, sentiment, kw) >= 1 => kw \in Listed(topics)

C16_CountsAndSeparateLists ==
    (pc = "topics" /\ negative_topics.ok /\ positive_topics.ok) =>
        /\ CountsOfScanSet(negative_topics.val, reviews, "negative", TopK)
        /\ CountsOfScanSet(positive_topics.val, reviews, "positive", TopK)
        /\ \A kw \in Range(keywords) :
              (Holders(reviews, kw) # {}
                 /\ \A i \in Holders(reviews, kw) : ClassOf(reviews[i]) = "negative") =>
                 /\ kw \in Listed(negative_topics.val)
                 /\ kw \notin Listed(positive_topics.val)

\* What does hold: the counts of each list.
C16_CountsOfEachList ==
    (pc = "topics" /\ negative_topics.ok /\ positive_topics.ok) =>
        /\ CountsOfScanSet(negative_topics.val, reviews, "negative", TopK)
        /\ CountsOfScanSet(positive_topics.val, reviews, "positive", TopK)

(***************************************************************************)
(* Retrieval and evidence quotes, called on their own.                     *)
(***************************************************************************)
MaxPicks == 3
MaxK == 3
MaxQuotesArg == 3

EvidenceReview(body, title) ==
    [BaseReview EXCEPT !.body = body, !.product_title = title]

LongBody ==
    <<"the", "battery", "stopped", "working", "after", "two", "days", "and",
      "support", "never", "answered", "bob@example.com", "thanks", "again">>

EvidenceReviews ==
    {EvidenceReview(Some(<<"Battery", "died">>), None),
     EvidenceReview(Some(<<"fine">>), Some(<<"Battery", "pack">>)),
     EvidenceReview(Some(<<"great", "quality", "battery">>), None),
     EvidenceReview(None, None),
     EvidenceReview(Some(LongBody), None),
     EvidenceReview(Some(<<"contact", "a@b.co@c.de">>), None)}

EvidenceQuestions ==
    {<<"ki">>, <<"battery", "quality">>, <<"Battery", "battery">>}

InitEvidence ==
    /\ pc = "call"
    /\ reviews \in SeqsUpTo(EvidenceReviews, MaxPicks)
    /\ question \in EvidenceQuestions
    /\ date_range = None
    /\ product_id = None
    /\ today = None
    /\ HAS_DATEUTIL = TRUE
    /\ ret = None
    /\ stats = None
    /\ negative_topics = None
    /\ positive_topics = None
    /\ NoChat
    /\ NoClient

CallRetrieve ==
    /\ pc = "call"
    /\ \E k \in 1..MaxK :
          ret' = [k |-> k, picks |-> retrieve_relevant_reviews(question, reviews, k)]
    /\ pc' = "retrieved"
    /\ UNCHANGED <<question, reviews, date_range, product_id, today, HAS_DATEUTIL,
                   stats, negative_topics, positive_topics>>
    /\ UNCHANGED <<chatVars, clientVars>>

CallBuildQuotes ==
    /\ pc = "call"
    /\ \E max_quotes \in 0..MaxQuotesArg :
          ret' = [max_quotes |-> max_quotes,
                  quotes |-> build_evidence_quotes(question, reviews, max_quotes)]
    /\ pc' = "quoted"
    /\ UNCHANGED <<question, reviews, date_range, product_id, today, HAS_DATEUTIL,
                   stats, negative_topics, positive_topics>>
    /\ UNCHANGED <<chatVars, clientVars>>

NextEvidence == CallRetrieve \/ CallBuildQuotes

SpecEvidence == InitEvidence /\ [][NextEvidence]_vars

\* the number of reviews of rs with a score above 0 for the question
Positives(q, rs) == Cardinality({i \in DOMAIN rs : Score(rs[i], QTerms(q)) > 0})

\* the collection holds two equal reviews
HasDuplicates(rs) == \E i, j \in DOMAIN rs : i < j /\ rs[i] = rs[j]

\* C17: retrieve_relevant_reviews(question, reviews, k) returns exactly
\* min(k, len(reviews)) reviews for every question and every k >= 1: also
\* when fewer than k reviews score above 0, when the question has no term of
\* length >= 3, and when the collection holds equal reviews.
C17_ReturnsMinOfKAndLen ==
    pc = "retrieved" => Len(ret.picks) = Min({ret.k, Len(reviews)})

C17_Witness ==
    /\ pc = "retrieved"
    /\ QTerms(question) # <<>>
    /\ HasDuplicates(reviews)
    /\ Positives(question, reviews) > 0
    /\ Positives(question, reviews) < ret.k
    /\ Len(ret.picks) = ret.k

\* the reviews of rs whose score for the question is n, in the order of rs
WithScore(q, rs, n) == SelectSeq(rs, LAMBDA r : Score(r, QTerms(q)) = n)

IsPrefixOf(s, t) == Len(s) <= Len(t) /\ s = SubSeq(t, 1, Len(s))

\* the scores a review of the model can get
Scores == 0..(3 * 2)

\* C18: in the result of retrieve_relevant_reviews the reviews with a score
\* above 0 (2 per question term found in the body, 1 per term found in the
\* product title) come first, in descending score order and, among equal
\* scores, in the order of the input; a review is left out only if no
\* review of a lower score is in the result; a review of score 0 is in the
\* result only if every review of a score above 0 is, and these are fewer
\* than k; the reviews of score 0 are in the order of the input.
C18_ScoreOrderThenFill ==
    pc = "retrieved" =>
        LET picks == ret.picks
            sc(i) == Score(picks[i], QTerms(question))
        IN /\ \A i, j \in DOMAIN picks : i < j => sc(i) >= sc(j)
           /\ \A n \in Scores :
                 /\ IsPrefixOf(WithScore(question, picks, n),
                               WithScore(question, reviews, n))
                 /\ WithScore(question, picks, n) # WithScore(question, reviews, n)
                       => \A i \in DOMAIN picks : sc(i) >= n
           /\ (\E i \in DOMAIN picks : sc(i) = 0) =>
                 /\ Positives(question, picks) = Positives(question, reviews)
                 /\ Positives(question, reviews) < ret.k

C18_Witness ==
    /\ pc = "retrieved"
    /\ Len(ret.picks) = 3
    /\ Score(ret.picks[1], QTerms(question)) > Score(ret.picks[2], QTerms(question))
    /\ Score(ret.picks[2], QTerms(question)) > 0
    /\ Score(ret.picks[3], QTerms(question)) = 0
    /\ ret.picks # reviews

\* the words in which the e-mail pattern of _mask_emails finds a match
EmailLike == {"bob@example.com", "a@b.co@c.de", "a***@b.co@c.de"}

\* C19: no quote returned by build_evidence_quotes has more than 12 words,
\* and none holds an unmasked e-mail address, also when the address lies at
\* the truncation boundary.
C19_QuotesShortAndMasked ==
    pc = "quoted" =>
        \A i \in DOMAIN ret.quotes :
            /\ Len(ret.quotes[i].words) <= QuoteWords
            /\ \A j \in DOMAIN ret.quotes[i].words :
                  ret.quotes[i].words[j] \notin EmailLike

\* C19, what holds: no quote has more than 12 words, an ellipsis marks
\* exactly the quotes cut at 12 words, and an address with a single "@" is
\* masked, also as the last word before the cut.
C19_QuotesShortAndPlainAddressesMasked ==
    pc = "quoted" =>
        \A i \in DOMAIN ret.quotes :
            /\ Len(ret.quotes[i].words) <= QuoteWords
            /\ ret.quotes[i].ellipsis => Len(ret.quotes[i].words) = QuoteWords
            /\ \A j \in DOMAIN ret.quotes[i].words :
                  ret.quotes[i].words[j] # "bob@example.com"

C19_MaskedAtBoundary ==
    /\ pc = "quoted"
    /\ \E i \in DOMAIN ret.quotes :
          /\ ret.quotes[i].ellipsis
          /\ ret.quotes[i].words[QuoteWords] = "b***@example.com"

\* the quotes of the reviews of picks with a non-empty body, in order
QuotesOf(picks) ==
    LET bodies == SelectSeq([i \in DOMAIN picks |-> BodyOf(picks[i])],
                            LAMBDA b : b # <<>>)
    IN [i \in DOMAIN bodies |-> quote_max_words(bodies[i], QuoteWords)]

\* s is t with some of its elements left out
RECURSIVE IsSubsequence(_, _)
IsSubsequence(s, t) ==
    IF s = <<>> THEN TRUE
    ELSE IF t = <<>> THEN FALSE
    ELSE IF Head(s) = Head(t) THEN IsSubsequence(Tail(s), Tail(t))
    ELSE IsSubsequence(s, Tail(t))

DistinctInRetrievalOrder ==
    /\ \A i, j \in DOMAIN ret.quotes : i < j => ret.quotes[i] # ret.quotes[j]
    /\ IsSubsequence(ret.quotes,
                     QuotesOf(retrieve_relevant_reviews(question, reviews, RetrieveK)))

\* C20: for every max_quotes >= 0, build_evidence_quotes returns pairwise
\* distinct quotes, at most max_quotes of them, taken in retrieval order
\* from the reviews with a non-empty body.
C20_DistinctAndCapped ==
    pc = "quoted" =>
        /\ DistinctInRetrievalOrder
        /\ Len(ret.quotes) <= ret.max_quotes

\* C20, what holds: the same for every max_quotes >= 1.
C20_DistinctAndCappedFromOne ==
    (pc = "quoted" /\ ret.max_quotes >= 1) =>
        /\ DistinctInRetrievalOrder
        /\ Len(ret.quotes) <= ret.max_quotes

(***************************************************************************)
(* Claims about the quantity intent of the router.                         *)
(***************************************************************************)
\* the sub-route the claim names for a quantity question
ClaimQuantityBranch(ql) ==
    IF AnyIn(QuantityNegativeKeys, ql) THEN "quantity_negative"
    ELSE IF AnyIn(QuantityPositiveKeys, ql) THEN "quantity_positive"
    ELSE IF AnyIn(QuantityNeutralKeys, ql) THEN "quantity_neutral"
    ELSE IF AnyIn(QuantityRatingKeys, ql) THEN "quantity_rating"
    ELSE "quantity_total"

\* a request answered by the quantity intent, with no injected failure
QuantityAnswered ==
    /\ pc = "done"
    /\ faults = {}
    /\ ret.kind = "answer"
    /\ ~AnyIn(ScreenshotKeys, LowerText(question))
    /\ ~AnyIn(ExportKeys, LowerText(question))
    /\ AnyIn(QuantityKeys, LowerText(question))

\* the negative count and percentage of the answer are those of the
\* filtered reviews
NegativeNumbersOfFiltered ==
    /\ ret.answer.count = CountClass(filtered_reviews, "negative")
    /\ ret.answer.pct = Pct(CountClass(filtered_reviews, "negative"),
                            Len(filtered_reviews))

\* C21: for a question matching the quantity intent (and no screenshot or
\* export keyword) the sub-routes are tested in the order negative,
\* positive, neutral, rating, else full breakdown; with a negative keyword
\* the answer has the negative count and the negative percentage computed
\* from the filtered reviews, also when a positive, neutral or rating
\* keyword is present too.
C21_QuantitySubRoutes ==
    QuantityAnswered =>
        /\ ret.branch = ClaimQuantityBranch(LowerText(question))
        /\ AnyIn(QuantityNegativeKeys, LowerText(question)) => NegativeNumbersOfFiltered

\* C21, what holds: the same whenever compute_stats_from_reviews returns
\* on the filtered reviews.
C21_QuantitySubRoutesWhenStatsReturn ==
    (QuantityAnswered /\ compute_stats_from_reviews(filtered_reviews).ok) =>
        /\ ret.branch = ClaimQuantityBranch(LowerText(question))
        /\ AnyIn(QuantityNegativeKeys, LowerText(question)) => NegativeNumbersOfFiltered

(***************************************************************************)
(* Claims about the review-source fetches of one request.                  *)
(***************************************************************************)
\* the fetch calls of the request, in the order they were issued
FetchCalls == SelectSeq(calls, LAMBDA c : c.op = "fetch")

\* C22: within one ai_chat request the review source is fetched in a
\* bounded way: after the first fetch at most one further fetch for more
\* history is issued, that retry asks for a larger limit than the first, and
\* no failure or short result of a fetch triggers another fetch.
C22_OneRetryWithLargerLimit ==
    /\ Len(FetchCalls) <= 2
    /\ Len(FetchCalls) = 2 => FetchCalls[2].limit > FetchCalls[1].limit

\* C22, what holds: at most two fetches are issued, whatever they return,
\* and the second asks for the limit the first asked for.
C22_AtMostTwoFetchesSameLimit ==
    /\ Len(FetchCalls) <= 2
    /\ Len(FetchCalls) = 2 => FetchCalls[2].limit = FetchCalls[1].limit
    /\ pc = "done" => Len(FetchCalls) <= (IF shopify = None THEN 0 ELSE 2)

(***************************************************************************)
(* groq_ai.py: groq_chat_completion and its response cache, called by      *)
(* concurrent callers (coroutines that interleave at the await of the      *)
(* outbound request).                                                      *)
(***************************************************************************)
MaxCallers == 2
Callers == 1..MaxCallers

\* _cache_key: sha256 of "model||temperature||max_tokens||payload_key",
\* taken as free of collisions
cache_key(model, payload_key, temperature, max_tokens) ==
    <<"sha256", model, temperature, max_tokens, payload_key>>

\* the arguments of the calls (temperature in tenths)
GroqRequests ==
    {[model |-> "llama-3.1-8b-instant", temperature |-> 2, max_tokens |-> mt,
      payload |-> "p1", use_cache |-> uc] : mt \in {220, 500}, uc \in BOOLEAN}

KeyOf(req) == cache_key(req.model, req.payload, req.temperature, req.max_tokens)

\* (content or "").strip()
Strip(content) ==
    CASE content = " a " -> "a"
      [] content = "  " -> ""
      [] OTHER -> content

\* what the outbound request does: it times out, it fails, or a response
\* arrives; the body is JSON with a message content, or is not JSON
GroqStatuses == {200, 304, 429}
GroqBodies == {[json |-> TRUE, content |-> t] : t \in {"a", "b", " a ", "  ", ""}}
                  \cup {[json |-> FALSE, content |-> ""]}
GroqResponses ==
    {[kind |-> "timeout", status |-> 0, body |-> [json |-> FALSE, content |-> ""]],
     [kind |-> "request_error", status |-> 0, body |-> [json |-> FALSE, content |-> ""]]}
    \cup {[kind |-> "response", status |-> st, body |-> b] :
             st \in GroqStatuses, b \in GroqBodies}

IdleCaller ==
    [pc |-> "idle", req |-> None, posted |-> FALSE, status |-> 0, kind |-> "none",
     result |-> None, error |-> None]

\* lines 85-114: what a call makes of the outcome of its request
Complete(caller, resp) ==
    IF resp.kind = "timeout" \/ resp.kind = "request_error"
    THEN [caller EXCEPT !.pc = "raised", !.error = Some("GroqError"),
                        !.kind = resp.kind]
    ELSE IF resp.status >= 400
    THEN [caller EXCEPT !.pc = "raised", !.error = Some("GroqError"),
                        !.kind = resp.kind, !.status = resp.status]
    ELSE IF ~resp.body.json
    THEN [caller EXCEPT !.pc = "raised", !.error = Some("JSONDecodeError"),
                        !.kind = resp.kind, !.status = resp.status]
    ELSE IF Strip(resp.body.content) = ""
    THEN [caller EXCEPT !.pc = "raised", !.error = Some("GroqError"),
                        !.kind = "empty", !.status = resp.status]
    ELSE [caller EXCEPT !.pc = "returned", !.result = Some(Strip(resp.body.content)),
                        !.kind = resp.kind, !.status = resp.status]

\* _CACHE[ck] = content
Store(cache, ck, content) ==
    [k \in DOMAIN cache \cup {ck} |-> IF k = ck THEN content ELSE cache[k]]

InitGroq ==
    /\ pc = "serving"
    /\ CACHE = <<>>
    /\ callers = [c \in Callers |-> IdleCaller]
    /\ page = 0
    /\ limit = 0
    /\ question = <<>>
    /\ reviews = <<>>
    /\ date_range = None
    /\ product_id = None
    /\ today = None
    /\ HAS_DATEUTIL = TRUE
    /\ ret = None
    /\ stats = None
    /\ negative_topics = None
    /\ positive_topics = None
    /\ NoChat

groqFrame == <<pc, question, reviews, date_range, product_id, today, HAS_DATEUTIL,
               ret, stats, negative_topics, positive_topics, chatVars, page, limit>>

\* lines 53-71: the credentials check and the cache lookup
GroqCall(c) ==
    /\ callers[c].pc = "idle"
    /\ \E api_key \in BOOLEAN, req \in GroqRequests :
          callers' = [callers EXCEPT ![c] =
              IF ~api_key
              THEN [IdleCaller EXCEPT !.pc = "raised", !.req = Some(req),
                                      !.error = Some("GroqError"), !.kind = "no_key"]
              ELSE IF req.use_cache /\ KeyOf(req) \in DOMAIN CACHE
              THEN [IdleCaller EXCEPT !.pc = "returned", !.req = Some(req),
                                      !.result = Some(CACHE[KeyOf(req)]),
                                      !.kind = "hit"]
              ELSE [IdleCaller EXCEPT !.pc = "await", !.req = Some(req),
                                      !.posted = TRUE]]
    /\ UNCHANGED <<CACHE, groqFrame>>

\* lines 85-114: the request completes and the call returns or raises
GroqRespond(c) ==
    /\ callers[c].pc = "await"
    /\ \E resp \in GroqResponses :
          LET done == Complete(callers[c], resp)
          IN /\ callers' = [callers EXCEPT ![c] = done]
             /\ CACHE' = IF done.pc = "returned" /\ callers[c].req[1].use_cache
                         THEN Store(CACHE, KeyOf(callers[c].req[1]), done.result[1])
                         ELSE CACHE
    /\ UNCHANGED groqFrame

\* the caller has its text or its exception, and may call again
GroqLeave(c) ==
    /\ callers[c].pc \in {"returned", "raised"}
    /\ callers' = [callers EXCEPT ![c] = IdleCaller]
    /\ UNCHANGED <<CACHE, groqFrame>>

NextGroq == \E c \in Callers : GroqCall(c) \/ GroqRespond(c) \/ GroqLeave(c)

SpecGroq == InitGroq /\ [][NextGroq]_vars

\* C23: the response cache is additive-only under every interleaving of
\* concurrent callers: an entry once written is never removed and its value
\* is never replaced by a different value, also when two callers with the
\* same prompt both miss and both complete.
C23_CacheAdditiveOnly ==
    [][\A k \in DOMAIN CACHE : k \in DOMAIN CACHE' /\ CACHE'[k] = CACHE[k]]_vars

\* C23, what holds: an entry once written is never removed.
C23_CacheNeverShrinks ==
    [][DOMAIN CACHE \subseteq DOMAIN CACHE']_vars

\* C24: groq_chat_completion fails with GroqError, and leaves the cache
\* unchanged, on missing credentials, on every non-2xx response, on timeout,
\* on a request failure and on empty content; only a successful non-empty
\* completion is stored, under the key of model, temperature, max_tokens and
\* payload; a later call with the same key returns the stored text without
\* an outbound request.
C24_FailuresRaiseGroqError ==
    [][\A c \in Callers :
          callers'[c] # callers[c] =>
             /\ (callers'[c].kind \in {"no_key", "timeout", "request_error", "empty"}
                   \/ (callers'[c].kind = "response"
                         /\ callers'[c].status \notin 200..299)) =>
                   /\ callers'[c].pc = "raised"
                   /\ callers'[c].error = Some("GroqError")
                   /\ CACHE' = CACHE
             /\ CACHE' # CACHE =>
                   /\ callers'[c].pc = "returned"
                   /\ callers'[c].result # Some("")
                   /\ callers'[c].status \in 200..299
                   /\ CACHE' = Store(CACHE, KeyOf(callers'[c].req[1]),
                                     callers'[c].result[1])
             /\ (callers[c].pc = "idle" /\ callers'[c].pc # "raised"
                   /\ callers'[c].req[1].use_cache
                   /\ KeyOf(callers'[c].req[1]) \in DOMAIN CACHE) =>
                   /\ callers'[c].pc = "returned"
                   /\ ~callers'[c].posted
                   /\ callers'[c].result = Some(CACHE[KeyOf(callers'[c].req[1])])
       ]_vars

\* C24, what holds: the same for the responses with a status of 400 or more
\* and the 2xx responses whose body is JSON.
C24_FailuresRaiseGroqErrorFrom400 ==
    [][\A c \in Callers :
          callers'[c] # callers[c] =>
             /\ (callers'[c].kind \in {"no_key", "timeout", "request_error", "empty"}
                   \/ (callers'[c].kind = "response" /\ callers'[c].status >= 400)) =>
                   /\ callers'[c].pc = "raised"
                   /\ callers'[c].error = Some("GroqError")
                   /\ CACHE' = CACHE
             /\ callers'[c].pc = "raised" => CACHE' = CACHE
             /\ CACHE' # CACHE =>
                   /\ callers'[c].pc = "returned"
                   /\ callers'[c].result # Some("")
                   /\ callers'[c].status < 400
                   /\ CACHE' = Store(CACHE, KeyOf(callers'[c].req[1]),
                                     callers'[c].result[1])
             /\ (callers[c].pc = "idle" /\ callers'[c].pc # "raised"
                   /\ callers'[c].req[1].use_cache
                   /\ KeyOf(callers'[c].req[1]) \in DOMAIN CACHE) =>
                   /\ callers'[c].pc = "returned"
                   /\ ~callers'[c].posted
                   /\ callers'[c].result = Some(CACHE[KeyOf(callers'[c].req[1])])
       ]_vars

(***************************************************************************)
(* Claims about the empty question.                                        *)
(***************************************************************************)
\* the question has no character other than whitespace
OnlyWhitespace(q) == \A i \in DOMAIN q : \A w \in AllWords : q[i] # w

\* C25: an empty or whitespace-only question is an input error surfaced
\* immediately: ai_chat raises the 400 error before any review-source fetch
\* or generative call is issued, nothing is retried, and no answer is
\* produced.
C25_BlankQuestionIs400 ==
    OnlyWhitespace(question) =>
        /\ calls = <<>>
        /\ pc \in {"start", "done"}
        /\ pc = "done" => ret = Http400

\* a whitespace-only question of a request that could have fetched
C25_Witness ==
    /\ pc = "done"
    /\ question = <<"  ">>
    /\ shopify # None
    /\ ret.kind = "http400"

(***************************************************************************)
(* Claims about what the prompt of the default path is built from.         *)
(***************************************************************************)
\* the date and product filters of the request, applied to a collection
\* (no step of the request fails)
FiltersOf(rs) ==
    LET dated == IF DictTruthy(used_range)
                 THEN filter_reviews_by_date(rs, used_range, HAS_DATEUTIL).val
                 ELSE rs
    IN IF product_id # None
       THEN SelectSeq(dated, LAMBDA r : ProductOf(r) = product_id[1])
       ELSE dated

\* the reviews in hand after the two optional fetches when the request
\* carries the reviews rs and the fetches answer out1 and out2
InHandOf(rs, out1, out2) ==
    LET first == IF Len(rs) < 100 /\ shopify # None /\ out1.ok /\ out1.val # <<>>
                 THEN out1.val ELSE rs
    IN IF /\ shopify # None
          /\ (WantsHistory(question)
                \/ (SpanDays(used_range) # None /\ SpanDays(used_range)[1] > 90))
          /\ Len(first) < 1000
          /\ out2.ok
          /\ Len(out2.val) > Len(first)
       THEN out2.val ELSE first

\* the prompt of the request when it carries the reviews rs
PromptOf(rs, out1, out2) ==
    LET filt == FiltersOf(InHandOf(rs, out1, out2))
    IN Prompt(question, StatsOrDefault(filt), TopicsOrDefault(filt)[1],
              TopicsOrDefault(filt)[2],
              build_evidence_quotes(question, filt, MaxQuotes),
              filt, date_range_label, used_range)

\* the deterministic fallback answer of the request when it carries rs
FallbackOf(rs, out1, out2) ==
    FallbackAnswer(StatsOrDefault(FiltersOf(InHandOf(rs, out1, out2))),
                   used_range, faults)

\* rs without the reviews at the positions of the set gone
Without(rs, gone) ==
    LET keep == {i \in DOMAIN rs : i \notin gone}
        nth[n \in 0..Len(rs)] ==
            IF n = 0 THEN 0 ELSE CHOOSE i \in keep : i > nth[n - 1] /\
                                        \A j \in keep : j > nth[n - 1] => i <= j
    IN [n \in 1..Cardinality(keep) |-> rs[nth[n]]]

\* the collections that differ from rs only in reviews the filters remove
\* (rs itself is one of them)
Variants(rs) ==
    {Without(rs, gone) : gone \in SUBSET {i \in DOMAIN rs : FiltersOf(<<rs[i]>>) = <<>>}}

\* the answer of the n-th fetch of the request (any, when none was issued)
FetchAnswer(n) == IF Len(FetchCalls) >= n THEN FetchCalls[n].out ELSE Raise

\* the request has reached the generative call with no injected failure
OnDefaultPath ==
    /\ pc = "done"
    /\ faults = {}
    /\ calls # <<>>
    /\ calls[Len(calls)].op = "llm"

\* C26: on the default path the prompt is built only from the stats, topic
\* lists and evidence quotes of the filtered reviews (plus the question and
\* the date label), never from reviews the filters excluded: two requests
\* that differ only in reviews removed by the date or product filter send
\* the same prompt and get the same deterministic fallback answer.
C26_PromptIgnoresExcludedReviews ==
    OnDefaultPath =>
        /\ calls[Len(calls)].prompt
              = Prompt(question, StatsOrDefault(filtered_reviews),
                       TopicsOrDefault(filtered_reviews)[1],
                       TopicsOrDefault(filtered_reviews)[2],
                       build_evidence_quotes(question, filtered_reviews, MaxQuotes),
                       filtered_reviews, date_range_label, used_range)
        /\ \A rs \in Variants(reviews) :
              /\ PromptOf(rs, FetchAnswer(1), FetchAnswer(2))
                    = calls[Len(calls)].prompt
              /\ ModelRaised =>
                    FallbackOf(rs, FetchAnswer(1), FetchAnswer(2)) = ret

\* C26, what holds: the same for the requests that carry no review-source
\* settings, and for every request the prompt is built from the filtered
\* reviews alone.
C26_PromptIgnoresExcludedReviewsWithoutFetch ==
    OnDefaultPath =>
        /\ calls[Len(calls)].prompt
              = Prompt(question, StatsOrDefault(filtered_reviews),
                       TopicsOrDefault(filtered_reviews)[1],
                       TopicsOrDefault(filtered_reviews)[2],
                       build_evidence_quotes(question, filtered_reviews, MaxQuotes),
                       filtered_reviews, date_range_label, used_range)
        /\ PromptOf(reviews, FetchAnswer(1), FetchAnswer(2)) = calls[Len(calls)].prompt
        /\ shopify = None =>
              \A rs \in Variants(reviews) :
                 /\ PromptOf(rs, FetchAnswer(1), FetchAnswer(2))
                       = calls[Len(calls)].prompt
                 /\ ModelRaised =>
                       FallbackOf(rs, FetchAnswer(1), FetchAnswer(2)) = ret

(***************************************************************************)
(* Claims about the overlap of "last month" and "previous month".          *)
(***************************************************************************)
\* C27: the overlap between the "last month" and "previous month" phrase
\* sets is resolved by one precedence: every question containing "last
\* month" (and no 7-day phrase) resolves to the rolling range
\* [today - 30 days, today], and the calendar-previous-month range is
\* produced only for "previous month"; the "last month" entry of the
\* previous-month rule never decides.
C27_LastMonthIsRolling ==
    pc = "parsed" =>
        LET ql == LowerText(question)
            now == today[1]
        IN /\ (AnyIn({<<"last", "month">>}, ql) /\ ~SevenGroup(ql)) =>
                 /\ EndsTodayWidth(ret, now, 30)
                 /\ ret # PriorMonth(now)
           /\ ret = PriorMonth(now) =>
                 /\ AnyIn({<<"previous", "month">>}, ql)
                 /\ ~AnyIn({<<"last", "month">>}, ql)

\* a question with both phrases gets the rolling range
C27_Witness ==
    /\ pc = "parsed"
    /\ AnyIn({<<"last", "month">>}, LowerText(question))
    /\ AnyIn({<<"previous", "month">>}, LowerText(question))
    /\ EndsTodayWidth(ret, today[1], 30)

\* "previous month" alone gets the calendar month
C27_WitnessPrevious ==
    /\ pc = "parsed"
    /\ question = <<"previous", "month">>
    /\ ret = PriorMonth(today[1])

(***************************************************************************)
(* Claims about the range and the filters of a request.                    *)
(***************************************************************************)
\* the question of the request yields a range
QuestionRange ==
    IF "parse" \in faults THEN None
    ELSE parse_date_range(question, today[1], HAS_DATEUTIL)

\* C28: the date range ai_chat filters with is the one parsed from the
\* question whenever parse_date_range returns one; the caller-supplied range
\* is used only when the question yields none (or its parsing fails); the
\* date filter is applied before the product filter, and the product filter
\* keeps exactly the reviews whose product id equals the requested id.
C28_QuestionRangeFirst ==
    (~Blank(question) /\ pc \in {"history", "analyze", "route", "llm", "done"}) =>
        /\ QuestionRange # None => used_range = QuestionRange
        /\ QuestionRange = None => used_range = date_range
        /\ (pc \in {"route", "llm", "done"}
              /\ "date_filter" \notin faults /\ "product_filter" \notin faults) =>
              LET dated == IF DictTruthy(used_range)
                           THEN filter_reviews_by_date(raw_reviews, used_range,
                                                       HAS_DATEUTIL).val
                           ELSE raw_reviews
              IN filtered_reviews =
                    IF product_id = None THEN dated
                    ELSE SelectSeq(dated, LAMBDA r : r.product_id = product_id)

\* the question and the caller give different ranges that filter differently,
\* the question's range is used, and the product filter removes a review
C28_Witness ==
    /\ pc = "done"
    /\ QuestionRange # None
    /\ DictTruthy(date_range)
    /\ used_range = QuestionRange
    /\ product_id # None
    /\ Len(raw_reviews) = 2
    /\ Len(filter_reviews_by_date(raw_reviews, date_range, HAS_DATEUTIL).val) = 1
    /\ Len(filter_reviews_by_date(raw_reviews, used_range, HAS_DATEUTIL).val) = 2
    /\ Len(filtered_reviews) = 1

(***************************************************************************)
(* Claims about what a fetch does to the reviews in hand.                  *)
(***************************************************************************)
\* the reviews in hand after the first fetch, by the claim
ClaimAfterFirst ==
    IF Len(FetchCalls) >= 1 /\ FetchCalls[1].out.ok /\ FetchCalls[1].out.val # <<>>
    THEN FetchCalls[1].out.val
    ELSE reviews

\* and after the history fetch
ClaimAfterHistory ==
    IF /\ Len(FetchCalls) = 2
       /\ FetchCalls[2].out.ok
       /\ Len(FetchCalls[2].out.val) > Len(ClaimAfterFirst)
    THEN FetchCalls[2].out.val
    ELSE ClaimAfterFirst

\* C29: a server-side fetch that raises or returns an empty list leaves the
\* reviews in hand unchanged and the request continues; the first fetch
\* replaces them with any non-empty result, the history fetch only when it
\* returns strictly more reviews than are in hand, so the number of reviews
\* never decreases because of the history fetch.
C29_FetchesAndReviewsInHand ==
    ~Blank(question) =>
        /\ pc = "range" => raw_reviews = ClaimAfterFirst
        /\ pc \in {"analyze", "route", "llm", "done"} =>
              /\ raw_reviews = ClaimAfterHistory
              /\ Len(raw_reviews) >= Len(ClaimAfterFirst)
        /\ pc = "done" => ret.kind = "answer"

\* the first fetch raised, the history fetch returned as many reviews as
\* are in hand, and the request was answered from the reviews in hand
C29_Witness ==
    /\ pc = "done"
    /\ Len(FetchCalls) = 2
    /\ ~FetchCalls[1].out.ok
    /\ FetchCalls[2].out.ok
    /\ Len(FetchCalls[2].out.val) = Len(reviews)
    /\ FetchCalls[2].out.val # reviews
    /\ raw_reviews = reviews
    /\ ret.kind = "answer"

(***************************************************************************)
(* integrations/shopify.py: JudgeMeClient.get_full_reviews, the paging     *)
(* loop over the review API.  `reviews` is the list the loop collects.     *)
(***************************************************************************)
per_page == 100
MinBody == 10
MaxPages == 3

\* the items of a batch: a dict with a body, or something that is no dict
Item(is_dict, body, rating) == [is_dict |-> is_dict, body |-> body, rating |-> rating]
GoodItem == Item(TRUE, "  great product overall ", 5)
HtmlItem == Item(TRUE, "<p>nice</p>", 4)
BoldItem == Item(TRUE, "<b>works</b> as described", 4)
ShortItem == Item(TRUE, "ok", 3)
NoDictItem == Item(FALSE, "", 0)

\* re.sub(r'<[^>]+>', '', str(body)).strip()
CleanBody(body) ==
    CASE body = "  great product overall " -> "great product overall"
      [] body = "<p>nice</p>" -> "nice"
      [] body = "<b>works</b> as described" -> "works as described"
      [] OTHER -> body

\* len(body)
CharLen(body) ==
    CASE body = "great product overall" -> 21
      [] body = "works as described" -> 18
      [] body = "nice" -> 4
      [] body = "ok" -> 2
      [] OTHER -> 0

Repeat(x, n) == [i \in 1..n |-> x]

\* what one call of get_reviews does: it raises, or returns a batch
PageOutcomes ==
    {[ok |-> FALSE, error |-> "ShopifyAPIError"], [ok |-> FALSE, error |-> "Exception"],
     Ok(<<>>),
     Ok(Repeat(GoodItem, per_page)),
     Ok(Repeat(ShortItem, per_page)),
     Ok(Repeat(HtmlItem, per_page - 1) \o <<BoldItem>>),
     Ok(<<GoodItem, HtmlItem, NoDictItem, BoldItem>>)}

Limits == {0, 1, per_page, per_page + 50}

\* the inner loop over a batch: the accepted reviews are appended until
\* `limit` reviews are collected
RECURSIVE Collect(_, _, _)
Collect(collected, batch, lim) ==
    IF batch = <<>> \/ Len(collected) >= lim THEN collected
    ELSE LET review == Head(batch)
             body == CleanBody(review.body)
         IN IF review.is_dict /\ review.body # "" /\ CharLen(body) >= MinBody
            THEN Collect(Append(collected, [body |-> body, rating |-> review.rating]),
                         Tail(batch), lim)
            ELSE Collect(collected, Tail(batch), lim)

InitJudgeMe ==
    /\ pc = "loop"
    /\ reviews = <<>>
    /\ page = 1
    /\ limit \in Limits
    /\ CACHE = <<>>
    /\ callers = <<>>
    /\ question = <<>>
    /\ date_range = None
    /\ product_id = None
    /\ today = None
    /\ HAS_DATEUTIL = TRUE
    /\ ret = None
    /\ stats = None
    /\ negative_topics = None
    /\ positive_topics = None
    /\ NoChat

judgeMeFrame == <<question, date_range, product_id, today, HAS_DATEUTIL, stats,
                  negative_topics, positive_topics, chatVars, CACHE, callers>>

\* page += 1; the page numbers above MaxPages are folded, by their parity,
\* onto MaxPages - 1 and MaxPages
NextPage(p) == IF p < MaxPages THEN p + 1 ELSE p - 1

\* one pass of the while loop: the page is requested and its batch handled
RequestPage ==
    /\ pc = "loop"
    /\ Len(reviews) < limit
    /\ \E out \in PageOutcomes :
          IF ~out.ok \/ out.val = <<>>
          THEN /\ pc' = "returned"
               /\ ret' = Some(Take(reviews, limit))
               /\ UNCHANGED <<reviews, page>>
          ELSE /\ reviews' = Collect(reviews, out.val, limit)
               /\ IF Len(out.val) < per_page
                  THEN /\ pc' = "returned"
                       /\ ret' = Some(Take(Collect(reviews, out.val, limit), limit))
                       /\ UNCHANGED page
                  ELSE /\ page' = NextPage(page)
                       /\ UNCHANGED <<pc, ret>>
    /\ UNCHANGED <<limit, judgeMeFrame>>

\* the while condition fails: return reviews[:limit]
LeaveLoop ==
    /\ pc = "loop"
    /\ Len(reviews) >= limit
    /\ pc' = "returned"
    /\ ret' = Some(Take(reviews, limit))
    /\ UNCHANGED <<reviews, page, limit, judgeMeFrame>>

NextJudgeMe == RequestPage \/ LeaveLoop

SpecJudgeMe == InitJudgeMe /\ [][NextJudgeMe]_vars

\* the loop is scheduled as long as it can take a step
SpecJudgeMeLive == SpecJudgeMe /\ WF_vars(NextJudgeMe)

\* at most `limit` reviews, each with a body of at least 10 characters
AtMostLimitLongBodies ==
    pc = "returned" =>
        /\ Len(ret[1]) <= limit
        /\ \A i \in DOMAIN ret[1] : CharLen(ret[1][i].body) >= MinBody

\* the pages are requested in increasing order, and the loop goes on only
\* after a full batch that left fewer than `limit` reviews collected
PagesInOrder ==
    [][(pc = "loop" /\ pc' = "loop") =>
          /\ page' = NextPage(page)
          /\ Len(reviews) < limit
          /\ Len(reviews') >= Len(reviews)]_vars

\* C30: get_full_reviews always terminates and returns at most `limit`
\* reviews, each with a body of at least 10 characters: it requests pages
\* 1, 2, 3, ... in increasing order and stops at the first empty batch, the
\* first batch shorter than 100 items, the first error, or as soon as
\* `limit` reviews are collected, for every sequence of batches the API may
\* return.
C30_TerminatesWithinLimit ==
    /\ <>(pc = "returned")
    /\ []AtMostLimitLongBodies
    /\ PagesInOrder

\* C30, what holds: whenever it returns, it returns at most `limit` reviews
\* with bodies of at least 10 characters, having requested the pages in
\* increasing order.
C30_WithinLimitWhenReturns ==
    /\ []AtMostLimitLongBodies
    /\ PagesInOrder

====
